---- MODULE Spec2Model ----
(***************************************************************************)
(* Flocka API: the card exchange handlers (single add, QR redeem, URL      *)
(* token mutual redeem, proximity request/respond, QR log feed, cleanup)   *)
(* over the D1 tables exchanges, qr_exchange_tokens, exchange_requests and *)
(* qr_exchange_logs.  Every handler is a sequence of awaited D1 statements; *)
(* each statement is one atomic step, so concurrent requests interleave    *)
(* between statements exactly as the Workers runtime allows.               *)
(***************************************************************************)
EXTENDS Integers, FiniteSets, Sequences, TLC

\* users holds the primary keys of the users table and user_rows the other
\* columns of each row
VARIABLES users, user_rows, password_reset_tokens, cards, exchanges,
          qr_exchange_tokens, exchange_requests, qr_exchange_logs,
          now, seq, pc, loc, prev

tables == <<users, user_rows, password_reset_tokens, cards, exchanges,
            qr_exchange_tokens, exchange_requests, qr_exchange_logs>>
vars == <<users, user_rows, password_reset_tokens, cards, exchanges,
          qr_exchange_tokens, exchange_requests, qr_exchange_logs,
          now, seq, pc, loc, prev>>

(* ------------------------------ bounds -------------------------------- *)
MaxTime == 60
TickStep == 30
MaxExchanges == 4
MaxTokens == 2
MaxRequests == 1
MaxLogs == 2
MaxUsers == 4

(* -------------------------- program constants ------------------------- *)
QR_TTL == 30
REQ_TTL == 30
URL_TTL == 1440
MinutesPerDay == 24 * 60

(* ------------------------------ universe ------------------------------ *)
\* request values that are not rows: an absent field and an id no table holds
Missing == "missing"
\* JavaScript truthiness of a string field: absent and '' are both falsy
Falsy(v) == v \in {Missing, ""}
Ghost == "ghost"
\* request handlers (isolates).  Handler 1 serves the observed client: its
\* response stays in its locals until the client has read it.  Handlers 2 and 3
\* serve peers whose responses are not kept.
Procs == {1, 2, 3}
SeqProcs == {1}
Observed == {1}
Peers == {2, 3}
Racers == {1, 2}

CardRow(id, user) == [id |-> id, user_id |-> user]
CardIds == { c.id : c \in cards }

(* ----------------------- timestamps as TEXT columns ------------------- *)
\* datetime('now') and datetime('now','+30 minutes') give 'YYYY-MM-DD HH:MM:SS'
SqlText(t) == [t |-> t, fmt |-> "sql"]
\* Date.prototype.toISOString() gives 'YYYY-MM-DDTHH:MM:SS.sssZ'
IsoText(t) == [t |-> t, fmt |-> "iso"]
DayOf(t) == t \div MinutesPerDay

\* SQLite compares the two TEXT values byte by byte: the date part first, then
\* position 10, where 'T' (0x54) sorts after ' ' (0x20), then the time part.
TextGT(a, b) ==
  IF DayOf(a.t) # DayOf(b.t) THEN DayOf(a.t) > DayOf(b.t)
  ELSE IF a.fmt # b.fmt THEN a.fmt = "iso"
  ELSE a.t > b.t

(* ------------------------------ locals -------------------------------- *)
\* row ids (crypto.randomUUID()) are only ever compared for equality
RowId(kind, a, b, n) == <<kind, a, b, n>>
NoId == RowId("-", "-", "-", 0)

IdleLoc ==
  [ op |-> "idle", caller |-> "-", token |-> 0, cardId |-> "-",
    myCardId |-> "-", otherOwner |-> "-", ex1 |-> FALSE, ex2 |-> FALSE,
    ref |-> NoId, ids |-> {}, todo |-> {}, n |-> 0, ins |-> {}, logged |-> {},
    tokAge |-> 0 - 1, tsAge |-> 0 - 1,
    email |-> "-", password |-> "-", emailSent |-> FALSE,
    status |-> 0, err |-> "-", req |-> <<>>, repeat |-> "no" ]

NoPrev == [ loc |-> IdleLoc, at |-> 0, how |-> "none", pc |-> "idle" ]

\* the request that starts now repeats the call that ended last, with the same
\* inputs and with nothing (no other request, no clock tick) in between
RepeatOf(op, req) ==
  IF /\ prev.how # "none"
     /\ prev.at = now
     /\ prev.loc.op = op
     /\ prev.loc.req = req
  THEN IF prev.how = "crash" THEN "crash"
       ELSE IF prev.loc.status = 200 THEN "ok" ELSE "failed"
  ELSE "no"

\* the locals of a handler that has just read its request: the caller and the
\* token, card ids and row id the request carries
NewLoc(op, caller, token, cardId, myCardId, ref) ==
  [ IdleLoc EXCEPT !.op = op, !.caller = caller, !.token = token,
                   !.cardId = cardId, !.myCardId = myCardId, !.ref = ref,
                   !.req = <<caller, token, cardId, myCardId, ref>>,
                   !.repeat = RepeatOf(op, <<caller, token, cardId, myCardId, ref>>) ]

Goto(p, l, label) ==
  /\ pc' = [pc EXCEPT ![p] = label]
  /\ loc' = [loc EXCEPT ![p] = l]

\* c.json(body, status): the handler returns
Respond(p, l, status, err) ==
  IF p \in Observed
  THEN /\ pc' = [pc EXCEPT ![p] = "done"]
       /\ loc' = [loc EXCEPT ![p] = [l EXCEPT !.status = status, !.err = err]]
  ELSE /\ pc' = [pc EXCEPT ![p] = "idle"]
       /\ loc' = [loc EXCEPT ![p] = IdleLoc]

(* ------------------------------ tables -------------------------------- *)
CardById(id) == { c \in cards : c.id = id }
CardOwned(id, user) == { c \in cards : c.id = id /\ c.user_id = user }
OwnerOf(id) == (CHOOSE c \in cards : c.id = id).user_id

\* SELECT id FROM exchanges WHERE owner_user_id = ? AND collected_card_id = ?
ExistingExchange(owner, card) ==
  \E e \in exchanges : e.owner_user_id = owner /\ e.collected_card_id = card

\* UNIQUE(owner_user_id, collected_card_id): the INSERT throws
\* 'UNIQUE constraint failed' when the pair is already present
UniqueViolation_NoConstraint(owner, card) == FALSE
UniqueViolation(owner, card) ==
  \E e \in exchanges : e.owner_user_id = owner /\ e.collected_card_id = card

\* FOREIGN KEY (...) REFERENCES users(id) / cards(id): D1 enforces foreign keys,
\* the INSERT throws 'FOREIGN KEY constraint failed' when a referenced row is gone
ForeignKeyViolation_NotEnforced(userIds, cardIds) == FALSE
ForeignKeyViolation(userIds, cardIds) ==
  ~(userIds \subseteq users /\ cardIds \subseteq CardIds)

\* crypto.randomUUID(): an id that no row and no running handler holds
LiveIds == UNION { {loc[p].ref} \cup loc[p].ids \cup loc[p].todo \cup loc[p].ins \cup loc[p].logged : p \in Procs }
FreshId(kind, a, b, used) ==
  LET taken == used \cup LiveIds
      n == CHOOSE i \in 1..(Cardinality(taken) + 1) :
             /\ RowId(kind, a, b, i) \notin taken
             /\ \A j \in 1..(i - 1) : RowId(kind, a, b, j) \in taken
  IN RowId(kind, a, b, n)
FreshExchangeId(owner, card) == FreshId("ex", owner, card, { e.id : e \in exchanges })

\* SQL NULL, and the request bodies' memo and location_name (the handlers that
\* insert a row store what the request carries; the app sends neither)
Null == "null"
NewExchange(owner, card) ==
  [ id |-> FreshExchangeId(owner, card), owner_user_id |-> owner, collected_card_id |-> card,
    memo |-> Null, location_name |-> Null ]

InitProcs ==
  /\ pc = [p \in Procs |-> "idle"]
  /\ loc = [p \in Procs |-> IdleLoc]
  /\ prev = NoPrev

InitTables ==
  /\ exchanges = {}
  /\ qr_exchange_tokens = {}
  /\ exchange_requests = {}
  /\ qr_exchange_logs = {}
  /\ now = 0
  /\ seq = [tok |-> 1, urls |-> {}]
  /\ InitProcs

\* hashPassword(password): the stored value is not the password
hashPassword(password) == <<"hash", password>>
UserRow(email, password) ==
  [ email |-> email, hashed_password |-> hashPassword(password), email_verified |-> 1 ]
\* every user registered with an address of their own and has verified it
Registered ==
  /\ user_rows = [u \in users |-> UserRow(u \o "@mail", "password-0")]
  /\ password_reset_tokens = {}

TwoUsers ==
  /\ users = {"A", "B"}
  /\ Registered
  /\ cards = { CardRow("A1", "A"), CardRow("B1", "B") }

\* the database after registration and card creation, before any exchange
Init ==
  /\ TwoUsers
  /\ InitTables

(* ===================== POST /exchanges (single add) =================== *)
PostExchange_Start_NoSelfCheck(p, caller, collected_card_id) ==
  /\ pc[p] = "idle"
  /\   LET l == NewLoc("add", caller, 0, collected_card_id, "-", NoId) IN
       /\ IF collected_card_id = Missing
          THEN Respond(p, l, 400, "CardIdRequired")
          ELSE IF CardById(collected_card_id) = {}
          THEN Respond(p, l, 404, "CardNotFound")
          ELSE Goto(p, l, "add_check")
  /\ UNCHANGED <<tables, now, seq, prev>>

PostExchange_Start(p, caller, collected_card_id) ==
  /\ pc[p] = "idle"
  /\   LET l == NewLoc("add", caller, 0, collected_card_id, "-", NoId) IN
       /\ IF collected_card_id = Missing
          THEN Respond(p, l, 400, "CardIdRequired")
          ELSE IF CardById(collected_card_id) = {}
          THEN Respond(p, l, 404, "CardNotFound")
          ELSE IF OwnerOf(collected_card_id) = caller
          THEN Respond(p, l, 400, "SelfExchange")
          ELSE Goto(p, l, "add_check")
  /\ UNCHANGED <<tables, now, seq, prev>>

PostExchange_Check_NoDuplicateCheck(p) ==
  /\ pc[p] = "add_check"
  /\ Goto(p, loc[p], "add_insert")
  /\ UNCHANGED <<tables, now, seq, prev>>

PostExchange_Check(p) ==
  /\ pc[p] = "add_check"
  /\ IF ExistingExchange(loc[p].caller, loc[p].cardId)
     THEN Respond(p, loc[p], 409, "AlreadyCollected")
     ELSE Goto(p, loc[p], "add_insert")
  /\ UNCHANGED <<tables, now, seq, prev>>

PostExchange_Insert(p) ==
  /\ pc[p] = "add_insert"
  /\ Cardinality(exchanges) < MaxExchanges
  /\ IF UniqueViolation(loc[p].caller, loc[p].cardId)
     THEN /\ Respond(p, loc[p], 500, "UniqueConstraint")
          /\ UNCHANGED exchanges
     ELSE IF ForeignKeyViolation({loc[p].caller}, {loc[p].cardId})
     THEN /\ Respond(p, loc[p], 500, "ForeignKey")
          /\ UNCHANGED exchanges
     ELSE /\ exchanges' = exchanges \cup {NewExchange(loc[p].caller, loc[p].cardId)}
          /\ Respond(p, [loc[p] EXCEPT !.ins = @ \cup {FreshExchangeId(loc[p].caller, loc[p].cardId)}], 200, "ok")
  /\ UNCHANGED <<users, user_rows, password_reset_tokens, cards, qr_exchange_tokens, exchange_requests, qr_exchange_logs, now, seq, prev>>

(* ========================= DELETE /exchanges/:id ====================== *)
DeleteExchange_Start(p, caller, exchangeId) ==
  /\ pc[p] = "idle"
  /\   LET l == NewLoc("delete", caller, 0, "-", "-", exchangeId)
           row == { e \in exchanges : e.id = exchangeId } IN
       IF row = {}
       THEN Respond(p, l, 404, "ExchangeNotFound")
       ELSE IF (CHOOSE e \in row : TRUE).owner_user_id # caller
       THEN Respond(p, l, 403, "NotAuthorized")
       ELSE Goto(p, l, "del_run")
  /\ UNCHANGED <<tables, now, seq, prev>>

DeleteExchange_Run(p) ==
  /\ pc[p] = "del_run"
  /\ exchanges' = { e \in exchanges : e.id # loc[p].ref }
  /\ Respond(p, loc[p], 200, "ok")
  /\ UNCHANGED <<users, user_rows, password_reset_tokens, cards, qr_exchange_tokens, exchange_requests, qr_exchange_logs, now, seq, prev>>

(* ========================== PUT /exchanges/:id ======================== *)
\* the memo and location_name a request body can carry (Missing: field absent)
Memos == {Missing, "memo"}
Locations == {Missing, "place"}

UpdateExchange_Start_NoOwnerCheck(p, caller, exchangeId, memo, location_name) ==
  /\ pc[p] = "idle"
  /\   LET l == [ NewLoc("update", caller, 0, "-", "-", exchangeId)
                    EXCEPT !.req = @ \o <<memo, location_name>> ]
           row == { e \in exchanges : e.id = exchangeId } IN
       IF row = {}
       THEN Respond(p, l, 404, "ExchangeNotFound")
       ELSE Goto(p, l, "put_run")
  /\ UNCHANGED <<tables, now, seq, prev>>

UpdateExchange_Start(p, caller, exchangeId, memo, location_name) ==
  /\ pc[p] = "idle"
  /\   LET l == [ NewLoc("update", caller, 0, "-", "-", exchangeId)
                    EXCEPT !.req = @ \o <<memo, location_name>> ]
           row == { e \in exchanges : e.id = exchangeId } IN
       IF row = {}
       THEN Respond(p, l, 404, "ExchangeNotFound")
       ELSE IF (CHOOSE e \in row : TRUE).owner_user_id # caller
       THEN Respond(p, l, 403, "NotAuthorized")
       ELSE Goto(p, l, "put_run")
  /\ UNCHANGED <<tables, now, seq, prev>>

\* UPDATE exchanges SET memo = ?, location_name = ?, ... WHERE id = ?, with
\* body.memo ?? '' and body.location_name ?? null
UpdateExchange_Run(p) ==
  /\ pc[p] = "put_run"
  /\ exchanges' =
       { IF e.id = loc[p].ref
         THEN [e EXCEPT !.memo = IF loc[p].req[6] = Missing THEN "" ELSE loc[p].req[6],
                        !.location_name = IF loc[p].req[7] = Missing THEN Null ELSE loc[p].req[7]]
         ELSE e : e \in exchanges }
  /\ Respond(p, loc[p], 200, "ok")
  /\ UNCHANGED <<users, user_rows, password_reset_tokens, cards, qr_exchange_tokens, exchange_requests, qr_exchange_logs, now, seq, prev>>

(* ============================ QR payloads ============================= *)
NoToken == 0
NoTime == 0 - 1
TokenStrings == 1..(MaxTokens + 1)
Times == { t \in 0..MaxTime : t % TickStep = 0 }

QRData(form, type, cardId, userId, token, timestamp) ==
  [ form |-> form, type |-> type, cardId |-> cardId, userId |-> userId,
    token |-> token, timestamp |-> timestamp ]
NullQR == QRData("null", "-", Missing, Missing, NoToken, NoTime)
\* a raw token string (does not start with '{')
OpaqueQR(token) == QRData("opaque", "-", Missing, Missing, token, NoTime)
\* a string that starts with '{' and is not JSON
GarbageQR == QRData("garbage", "-", Missing, Missing, NoToken, NoTime)

\* the qrData strings a client can send
QRInputs ==
  { OpaqueQR(t) : t \in TokenStrings }
  \cup { QRData("json", "card_exchange", c, IF c = Ghost THEN "A" ELSE OwnerOf(c), t, ts) :
           c \in CardIds \cup {Ghost}, t \in TokenStrings,
           ts \in { x \in Times : x <= now } }
  \cup { QRData("json", "other", "A1", "A", 1, 0),
         QRData("json", "card_exchange", Missing, "A", 1, 0),
         QRData("json", "card_exchange", "A1", Missing, 1, 0),
         QRData("json", "card_exchange", "A1", "A", NoToken, 0),
         QRData("json", "card_exchange", "A1", "A", 1, NoTime),
         GarbageQR }

\* parseCardExchangeQRData of the exchanges route: type, cardId, userId, token
\* and timestamp must be present and the age at most 30 minutes
parseCardExchangeQRData(qrData, t) ==
  IF qrData.form # "json" THEN NullQR
  ELSE IF /\ qrData.type = "card_exchange"
          /\ ~Falsy(qrData.cardId)
          /\ ~Falsy(qrData.userId)
          /\ qrData.token # NoToken
          /\ qrData.timestamp # NoTime
       THEN IF t - qrData.timestamp > QR_TTL THEN NullQR ELSE qrData
       ELSE NullQR

(* ===================== POST /exchanges/qr/generate ==================== *)
\* SELECT * FROM qr_exchange_tokens WHERE token = ? AND expires_at > datetime("now")
ValidToken(token) ==
  { r \in qr_exchange_tokens : r.token = token /\ TextGT(r.expires_at, SqlText(now)) }

TokenRow(token, user, card, created, expires) ==
  [ token |-> token, user_id |-> user, card_id |-> card,
    created_at |-> created, expires_at |-> expires ]

\* age of the presented credential when the request arrives (-1: none)
TokenAge(token) ==
  IF \E r \in qr_exchange_tokens : r.token = token
  THEN now - (CHOOSE r \in qr_exchange_tokens : r.token = token).created_at.t
  ELSE 0 - 1
StampAge(timestamp) == IF timestamp = NoTime THEN 0 - 1 ELSE now - timestamp

QrGenerate_Start(p, caller, cardId) ==
  /\ pc[p] = "idle"
  /\   LET l == NewLoc("generate", caller, NoToken, cardId, "-", NoId) IN
       IF cardId = Missing
       THEN Respond(p, l, 400, "CardIdRequired")
       ELSE IF CardOwned(cardId, caller) = {}
       THEN Respond(p, l, 404, "NotOwner")
       ELSE Goto(p, l, "gen_delete")
  /\ UNCHANGED <<tables, now, seq, prev>>

QrGenerate_Delete(p) ==
  /\ pc[p] = "gen_delete"
  /\ qr_exchange_tokens' =
       { r \in qr_exchange_tokens : ~(r.user_id = loc[p].caller /\ r.card_id = loc[p].cardId) }
  /\ Goto(p, loc[p], "gen_insert")
  /\ UNCHANGED <<users, user_rows, password_reset_tokens, cards, exchanges, exchange_requests, qr_exchange_logs, now, seq, prev>>

QrGenerate_Insert_OtherCard(p) ==
  /\ pc[p] = "gen_insert"
  /\ seq.tok <= MaxTokens
  /\ qr_exchange_tokens' = qr_exchange_tokens \cup
       { TokenRow(seq.tok, loc[p].caller, CHOOSE c \in CardIds : c # loc[p].cardId,
                  SqlText(now), SqlText(now + QR_TTL)) }
  /\ seq' = [seq EXCEPT !.tok = @ + 1]
  /\ Respond(p, [loc[p] EXCEPT !.token = seq.tok], 200, "ok")
  /\ UNCHANGED <<users, user_rows, password_reset_tokens, cards, exchanges, exchange_requests, qr_exchange_logs, now, prev>>

QrGenerate_Insert(p) ==
  /\ pc[p] = "gen_insert"
  /\ seq.tok <= MaxTokens
  /\ IF ForeignKeyViolation({loc[p].caller}, {loc[p].cardId})
     THEN /\ Respond(p, loc[p], 500, "ForeignKey")
          /\ UNCHANGED <<qr_exchange_tokens, seq>>
     ELSE /\ qr_exchange_tokens' = qr_exchange_tokens \cup
               { TokenRow(seq.tok, loc[p].caller, loc[p].cardId, SqlText(now), SqlText(now + QR_TTL)) }
          /\ seq' = [seq EXCEPT !.tok = @ + 1]
          /\ Respond(p, [loc[p] EXCEPT !.token = seq.tok], 200, "ok")
  /\ UNCHANGED <<users, user_rows, password_reset_tokens, cards, exchanges, exchange_requests, qr_exchange_logs, now, prev>>

(* ===================== POST /cards/:id/generate-qr ==================== *)
CardsGenerateQr_Start(p, caller, cardId) ==
  /\ pc[p] = "idle"
  /\   LET l == NewLoc("cards_generate", caller, NoToken, cardId, "-", NoId) IN
       IF CardOwned(cardId, caller) = {}
       THEN Respond(p, l, 404, "NotOwner")
       ELSE Goto(p, l, "cgen_insert")
  /\ UNCHANGED <<tables, now, seq, prev>>

CardsGenerateQr_Insert(p) ==
  /\ pc[p] = "cgen_insert"
  /\ seq.tok <= MaxTokens
  /\ IF ForeignKeyViolation({loc[p].caller}, {loc[p].cardId})
     THEN /\ Respond(p, loc[p], 500, "ForeignKey")
          /\ UNCHANGED <<qr_exchange_tokens, seq>>
     ELSE /\ qr_exchange_tokens' = qr_exchange_tokens \cup
               { TokenRow(seq.tok, loc[p].caller, loc[p].cardId, SqlText(now), IsoText(now + QR_TTL)) }
          /\ seq' = [seq EXCEPT !.tok = @ + 1]
          /\ Respond(p, [loc[p] EXCEPT !.token = seq.tok], 200, "ok")
  /\ UNCHANGED <<users, user_rows, password_reset_tokens, cards, exchanges, exchange_requests, qr_exchange_logs, now, prev>>

(* ============ POST /exchanges/qr (instant bidirectional) ============== *)
LogRow_Notified(id, qrOwner, scanner, scannerCard, qrCard, notified) ==
  [ id |-> id, qr_owner_user_id |-> qrOwner, scanner_user_id |-> scanner,
    scanner_card_id |-> scannerCard, qr_card_id |-> qrCard, notified |-> 1 ]
LogRow(id, qrOwner, scanner, scannerCard, qrCard, notified) ==
  [ id |-> id, qr_owner_user_id |-> qrOwner, scanner_user_id |-> scanner,
    scanner_card_id |-> scannerCard, qr_card_id |-> qrCard, notified |-> notified ]
FreshLogId == FreshId("log", "-", "-", { g.id : g \in qr_exchange_logs })

QrExchange_Start_NoCardFromToken(p, caller, qrData, myCardId) ==
  /\ pc[p] = "idle"
  /\   LET qrContent == parseCardExchangeQRData(qrData, now)
           token == IF qrData.form = "opaque" THEN qrData.token ELSE qrContent.token
           cardId0 == IF qrData.form = "opaque" THEN Missing ELSE qrContent.cardId
           qrToken == ValidToken(token)
           cardId == cardId0
           l == [ NewLoc("qr", caller, qrData.token, qrData.cardId, myCardId, NoId)
                    EXCEPT !.token = token,
                           !.cardId = cardId,
                           !.tokAge = TokenAge(token),
                           !.tsAge = StampAge(qrData.timestamp) ] IN
       IF qrData = NullQR \/ myCardId = Missing
       THEN Respond(p, l, 400, "QrDataRequired")
       ELSE IF qrData.form # "opaque" /\ qrContent = NullQR
       THEN Respond(p, l, 400, "InvalidOrExpiredQR")
       ELSE IF qrToken = {}
       THEN Respond(p, l, 400, "InvalidOrExpiredToken")
       ELSE Goto(p, l, "qr_other")
  /\ UNCHANGED <<tables, now, seq, prev>>
QrExchange_Start(p, caller, qrData, myCardId) ==
  /\ pc[p] = "idle"
  /\   LET qrContent == parseCardExchangeQRData(qrData, now)
           token == IF qrData.form = "opaque" THEN qrData.token ELSE qrContent.token
           cardId0 == IF qrData.form = "opaque" THEN Missing ELSE qrContent.cardId
           qrToken == ValidToken(token)
           cardId == IF cardId0 = Missing /\ qrToken # {}
                     THEN (CHOOSE r \in qrToken : TRUE).card_id ELSE cardId0
           l == [ NewLoc("qr", caller, qrData.token, qrData.cardId, myCardId, NoId)
                    EXCEPT !.token = token,
                           !.cardId = cardId,
                           !.tokAge = TokenAge(token),
                           !.tsAge = StampAge(qrData.timestamp) ] IN
       IF qrData = NullQR \/ myCardId = Missing
       THEN Respond(p, l, 400, "QrDataRequired")
       ELSE IF qrData.form # "opaque" /\ qrContent = NullQR
       THEN Respond(p, l, 400, "InvalidOrExpiredQR")
       ELSE IF qrToken = {}
       THEN Respond(p, l, 400, "InvalidOrExpiredToken")
       ELSE Goto(p, l, "qr_other")
  /\ UNCHANGED <<tables, now, seq, prev>>

QrExchange_Other(p) ==
  /\ pc[p] = "qr_other"
  /\ IF CardById(loc[p].cardId) = {}
     THEN Respond(p, loc[p], 404, "CardNotFound")
     ELSE Goto(p, [loc[p] EXCEPT !.otherOwner = OwnerOf(loc[p].cardId)], "qr_mine")
  /\ UNCHANGED <<tables, now, seq, prev>>

QrExchange_Mine(p) ==
  /\ pc[p] = "qr_mine"
  /\ IF CardOwned(loc[p].myCardId, loc[p].caller) = {}
     THEN Respond(p, loc[p], 404, "NotOwner")
     ELSE IF loc[p].otherOwner = loc[p].caller
     THEN Respond(p, loc[p], 400, "SelfExchange")
     ELSE Goto(p, loc[p], "qr_ex1")
  /\ UNCHANGED <<tables, now, seq, prev>>

QrExchange_Existing1(p) ==
  /\ pc[p] = "qr_ex1"
  /\ Goto(p, [loc[p] EXCEPT !.ex1 = ExistingExchange(loc[p].caller, loc[p].cardId)], "qr_ex2")
  /\ UNCHANGED <<tables, now, seq, prev>>

QrExchange_Existing2(p) ==
  /\ pc[p] = "qr_ex2"
  /\ Goto(p, [loc[p] EXCEPT !.ex2 = ExistingExchange(loc[p].otherOwner, loc[p].myCardId)], "qr_ins1")
  /\ UNCHANGED <<tables, now, seq, prev>>

\* one INSERT INTO exchanges of a bidirectional commit: the row goes in and the
\* handler moves to `next`, or the statement throws and the catch block answers 500
InsertDirection(p, owner, card, next) ==
  /\ Cardinality(exchanges) < MaxExchanges
  /\ IF UniqueViolation(owner, card)
     THEN /\ Respond(p, loc[p], 500, "UniqueConstraint")
          /\ UNCHANGED exchanges
     ELSE IF ForeignKeyViolation({owner}, {card})
     THEN /\ Respond(p, loc[p], 500, "ForeignKey")
          /\ UNCHANGED exchanges
     ELSE /\ exchanges' = exchanges \cup {NewExchange(owner, card)}
          /\ Goto(p, [loc[p] EXCEPT !.ins = @ \cup {FreshExchangeId(owner, card)}], next)

QrExchange_Insert1(p) ==
  /\ pc[p] = "qr_ins1"
  /\ IF loc[p].ex1
     THEN Goto(p, loc[p], "qr_ins2") /\ UNCHANGED exchanges
     ELSE InsertDirection(p, loc[p].caller, loc[p].cardId, "qr_ins2")
  /\ UNCHANGED <<users, user_rows, password_reset_tokens, cards, qr_exchange_tokens, exchange_requests, qr_exchange_logs, now, seq, prev>>

QrExchange_Insert2_ConsumesToken(p) ==
  /\ pc[p] = "qr_ins2"
  /\ IF loc[p].ex2
     THEN Goto(p, loc[p], "qr_log") /\ UNCHANGED exchanges
     ELSE InsertDirection(p, loc[p].otherOwner, loc[p].myCardId, "qr_log")
  /\ qr_exchange_tokens' = { r \in qr_exchange_tokens : r.token # loc[p].token }
  /\ UNCHANGED <<users, user_rows, password_reset_tokens, cards, exchange_requests, qr_exchange_logs, now, seq, prev>>

QrExchange_Insert2(p) ==
  /\ pc[p] = "qr_ins2"
  /\ IF loc[p].ex2
     THEN Goto(p, loc[p], "qr_log") /\ UNCHANGED exchanges
     ELSE InsertDirection(p, loc[p].otherOwner, loc[p].myCardId, "qr_log")
  /\ UNCHANGED <<users, user_rows, password_reset_tokens, cards, qr_exchange_tokens, exchange_requests, qr_exchange_logs, now, seq, prev>>

QrExchange_Log_OnlyWhenInserted(p) ==
  /\ pc[p] = "qr_log"
  /\ Cardinality(qr_exchange_logs) < MaxLogs
  /\ IF loc[p].ins = {}
     THEN /\ UNCHANGED qr_exchange_logs
          /\ Respond(p, loc[p], 200, "ok")
     ELSE /\ qr_exchange_logs' = qr_exchange_logs \cup
               { LogRow(FreshLogId, loc[p].otherOwner, loc[p].caller, loc[p].myCardId, loc[p].cardId, 0) }
          /\ Respond(p, [loc[p] EXCEPT !.logged = @ \cup {FreshLogId}], 200, "ok")
  /\ UNCHANGED <<users, user_rows, password_reset_tokens, cards, exchanges, qr_exchange_tokens, exchange_requests, now, seq, prev>>

QrExchange_Log(p) ==
  /\ pc[p] = "qr_log"
  /\ Cardinality(qr_exchange_logs) < MaxLogs
  /\ IF ForeignKeyViolation({loc[p].otherOwner, loc[p].caller}, {loc[p].myCardId, loc[p].cardId})
     THEN /\ Respond(p, loc[p], 500, "ForeignKey")
          /\ UNCHANGED qr_exchange_logs
     ELSE /\ qr_exchange_logs' = qr_exchange_logs \cup
               { LogRow(FreshLogId, loc[p].otherOwner, loc[p].caller, loc[p].myCardId, loc[p].cardId, 0) }
          /\ Respond(p, [loc[p] EXCEPT !.logged = @ \cup {FreshLogId}], 200, "ok")
  /\ UNCHANGED <<users, user_rows, password_reset_tokens, cards, exchanges, qr_exchange_tokens, exchange_requests, now, seq, prev>>

(* ============ POST /exchanges/qr (token-consuming variant) ============ *)
\* parseCardExchangeQRData of utils/qr: type, cardId, userId and token must be
\* present; `Date.now() - data.timestamp > maxAge` is false for an absent timestamp
parseCardExchangeQRData_utils(qrData, t) ==
  IF qrData.form # "json" THEN NullQR
  ELSE IF \/ qrData.type # "card_exchange"
          \/ Falsy(qrData.cardId)
          \/ Falsy(qrData.userId)
          \/ qrData.token = NoToken
       THEN NullQR
       ELSE IF qrData.timestamp # NoTime /\ t - qrData.timestamp > QR_TTL
       THEN NullQR
       ELSE qrData

\* generateCardExchangeQRData of utils/qr: JSON.stringify of
\* { type: 'card_exchange', cardId, userId, token, timestamp: Date.now() }
generateCardExchangeQRData(cardId, userId, exchangeToken, t) ==
  QRData("json", "card_exchange", cardId, userId, exchangeToken, t)

\* the two parsers of the repository: utils/qr and the one local to the routes
Parsers == {"utils", "route"}
ParseWith(parser, qrData, t) ==
  IF parser = "utils" THEN parseCardExchangeQRData_utils(qrData, t)
  ELSE parseCardExchangeQRData(qrData, t)

\* what a caller of the parser holds afterwards: null, or the parsed fields
Parsed(p, l, qrContent) ==
  IF qrContent = NullQR
  THEN Respond(p, l, 0, "null")
  ELSE Respond(p, [l EXCEPT !.cardId = qrContent.cardId, !.otherOwner = qrContent.userId,
                             !.token = qrContent.token, !.n = qrContent.timestamp], 0, "parsed")

\* a payload is generated now, to be parsed by one of the parsers later
Codec_Generate(p, parser, cardId, userId, exchangeToken) ==
  /\ pc[p] = "idle"
  /\ Goto(p, [ IdleLoc EXCEPT !.op = "codec_" \o parser, !.tsAge = now,
                              !.req = <<generateCardExchangeQRData(cardId, userId, exchangeToken, now),
                                        cardId, userId, exchangeToken>> ], "codec_parse")
  /\ UNCHANGED <<tables, now, seq, prev>>

Codec_Parse(p) ==
  /\ pc[p] = "codec_parse"
  /\ Parsed(p, loc[p],
            ParseWith(IF loc[p].op = "codec_utils" THEN "utils" ELSE "route", loc[p].req[1], now))
  /\ UNCHANGED <<tables, now, seq, prev>>

\* any string is handed to one of the parsers
Codec_ParseInput(p, parser, qrData) ==
  /\ pc[p] = "idle"
  /\ Parsed(p, [IdleLoc EXCEPT !.op = "parse_" \o parser, !.req = <<qrData>>],
            ParseWith(parser, qrData, now))
  /\ UNCHANGED <<tables, now, seq, prev>>

QrConsume_Start(p, caller, qrData, myCardId) ==
  /\ pc[p] = "idle"
  /\   LET qrContent == parseCardExchangeQRData_utils(qrData, now)
           l == [ NewLoc("qr_consume", caller, qrContent.token, qrContent.cardId, myCardId, NoId)
                    EXCEPT !.tokAge = TokenAge(qrData.token),
                           !.tsAge = StampAge(qrData.timestamp) ] IN
       IF qrData = NullQR \/ myCardId = Missing
       THEN Respond(p, l, 400, "QrDataRequired")
       ELSE IF qrContent = NullQR
       THEN Respond(p, l, 400, "InvalidOrExpiredQR")
       ELSE IF ValidToken(qrContent.token) = {}
       THEN Respond(p, l, 400, "InvalidOrExpiredToken")
       ELSE Goto(p, l, "qc_other")
  /\ UNCHANGED <<tables, now, seq, prev>>

\* SELECT ... FROM cards WHERE id = ?  (the issuer's card)
ResolveOther(p, next) ==
  IF CardById(loc[p].cardId) = {}
  THEN Respond(p, loc[p], 404, "CardNotFound")
  ELSE Goto(p, [loc[p] EXCEPT !.otherOwner = OwnerOf(loc[p].cardId)], next)

\* SELECT ... FROM cards WHERE id = ? AND user_id = ?, then the self-exchange guard
ResolveMine_NoSelfGuard(p, next) ==
  IF CardOwned(loc[p].myCardId, loc[p].caller) = {}
  THEN Respond(p, loc[p], 404, "NotOwner")
  ELSE Goto(p, loc[p], next)
ResolveMine(p, next) ==
  IF CardOwned(loc[p].myCardId, loc[p].caller) = {}
  THEN Respond(p, loc[p], 404, "NotOwner")
  ELSE IF loc[p].otherOwner = loc[p].caller
  THEN Respond(p, loc[p], 400, "SelfExchange")
  ELSE Goto(p, loc[p], next)

QrConsume_Other(p) ==
  /\ pc[p] = "qc_other"
  /\ ResolveOther(p, "qc_mine")
  /\ UNCHANGED <<tables, now, seq, prev>>

QrConsume_Mine(p) ==
  /\ pc[p] = "qc_mine"
  /\ ResolveMine(p, "qc_ex1")
  /\ UNCHANGED <<tables, now, seq, prev>>

QrConsume_Existing1(p) ==
  /\ pc[p] = "qc_ex1"
  /\ Goto(p, [loc[p] EXCEPT !.ex1 = ExistingExchange(loc[p].caller, loc[p].cardId)], "qc_ex2")
  /\ UNCHANGED <<tables, now, seq, prev>>

\* the second SELECT, then `if (existingExchange1 || existingExchange2)` -> 409
ConflictCheck(p, next) ==
  LET e2 == ExistingExchange(loc[p].otherOwner, loc[p].myCardId)
      l == [loc[p] EXCEPT !.ex2 = e2] IN
  IF loc[p].ex1 \/ e2
  THEN Respond(p, l, 409, "AlreadyExchanged")
  ELSE Goto(p, l, next)

QrConsume_Existing2(p) ==
  /\ pc[p] = "qc_ex2"
  /\ ConflictCheck(p, "qc_ins1")
  /\ UNCHANGED <<tables, now, seq, prev>>

QrConsume_Insert1(p) ==
  /\ pc[p] = "qc_ins1"
  /\ InsertDirection(p, loc[p].caller, loc[p].cardId, "qc_ins2")
  /\ UNCHANGED <<users, user_rows, password_reset_tokens, cards, qr_exchange_tokens, exchange_requests, qr_exchange_logs, now, seq, prev>>

QrConsume_Insert2(p) ==
  /\ pc[p] = "qc_ins2"
  /\ InsertDirection(p, loc[p].otherOwner, loc[p].myCardId, "qc_del")
  /\ UNCHANGED <<users, user_rows, password_reset_tokens, cards, qr_exchange_tokens, exchange_requests, qr_exchange_logs, now, seq, prev>>

QrConsume_DeleteToken(p) ==
  /\ pc[p] = "qc_del"
  /\ qr_exchange_tokens' = { r \in qr_exchange_tokens : r.token # loc[p].token }
  /\ Respond(p, loc[p], 200, "ok")
  /\ UNCHANGED <<users, user_rows, password_reset_tokens, cards, exchanges, exchange_requests, qr_exchange_logs, now, seq, prev>>

(* ================ POST /cards/:id/generate-exchange-url ================ *)
UrlToken(form, cardId, userId, timestamp, expires) ==
  [ form |-> form, cardId |-> cardId, userId |-> userId,
    timestamp |-> timestamp, expires |-> expires ]
NullUrl == UrlToken("null", Missing, Missing, NoTime, NoTime)
GarbageUrl == UrlToken("garbage", Missing, Missing, NoTime, NoTime)

\* btoa(JSON.stringify({cardId, userId, timestamp, expires: now + 24h}))
\* (the server keeps no record of it: seq.urls is the set of share URL tokens
\* handed out so far, as seq.tok counts the QR tokens handed out so far)
IssueUrlToken(cardId, userId, t) == UrlToken("b64json", cardId, userId, t, t + URL_TTL)

GenerateExchangeUrl(p, caller, cardId) ==
  /\ pc[p] = "idle"
  /\   LET l == NewLoc("url_generate", caller, NoToken, cardId, "-", NoId) IN
       IF CardOwned(cardId, caller) = {}
       THEN /\ Respond(p, l, 404, "NotOwner")
            /\ UNCHANGED seq
       ELSE /\ Respond(p, [l EXCEPT !.n = IssueUrlToken(cardId, caller, now).expires], 200, "ok")
            /\ seq' = [seq EXCEPT !.urls = @ \cup {IssueUrlToken(cardId, caller, now)}]
  /\ UNCHANGED <<tables, now, prev>>

\* the exchangeToken strings a client can send: the token is not signed, so
\* every field is under the client's control
UrlInputs ==
  { UrlToken("b64json", c, u, ts, e) :
      c \in CardIds \cup {Ghost, Missing}, u \in users,
      ts \in { x \in Times : x <= now },
      e \in { x \in Times : x <= now } \cup {now + URL_TTL, NoTime} }
  \cup { IssueUrlToken(c.id, c.user_id, ts) : c \in cards, ts \in { x \in Times : x <= now } }
  \cup { GarbageUrl }

(* ======================= POST /exchanges/mutual ======================= *)
\* `Date.now() > tokenData.expires`; with expires absent the comparison is false
UrlExpired(tokenData, t) == tokenData.expires # NoTime /\ t > tokenData.expires

Mutual_Start(p, caller, exchangeToken, myCardId) ==
  /\ pc[p] = "idle"
  /\   LET l == [ NewLoc("mutual", caller, NoToken, exchangeToken.cardId, myCardId, NoId)
                    EXCEPT !.tsAge = StampAge(exchangeToken.timestamp),
                           !.n = exchangeToken.expires ] IN
       IF exchangeToken = NullUrl \/ myCardId = Missing
       THEN Respond(p, l, 400, "TokenRequired")
       ELSE IF exchangeToken.form # "b64json"
       THEN Respond(p, l, 400, "InvalidToken")
       ELSE IF UrlExpired(exchangeToken, now)
       THEN Respond(p, l, 400, "ExpiredToken")
       ELSE IF exchangeToken.cardId = Missing
       THEN Respond(p, l, 500, "BindUndefined")
       ELSE IF CardById(exchangeToken.cardId) = {}
       THEN Respond(p, l, 404, "CardNotFound")
       ELSE Goto(p, [l EXCEPT !.otherOwner = OwnerOf(exchangeToken.cardId)], "mu_mine")
  /\ UNCHANGED <<tables, now, seq, prev>>

Mutual_Mine(p) ==
  /\ pc[p] = "mu_mine"
  /\ ResolveMine(p, "mu_ex1")
  /\ UNCHANGED <<tables, now, seq, prev>>

Mutual_Existing1(p) ==
  /\ pc[p] = "mu_ex1"
  /\ Goto(p, [loc[p] EXCEPT !.ex1 = ExistingExchange(loc[p].caller, loc[p].cardId)], "mu_ex2")
  /\ UNCHANGED <<tables, now, seq, prev>>

Mutual_Existing2(p) ==
  /\ pc[p] = "mu_ex2"
  /\ ConflictCheck(p, "mu_ins1")
  /\ UNCHANGED <<tables, now, seq, prev>>

Mutual_Insert1(p) ==
  /\ pc[p] = "mu_ins1"
  /\ InsertDirection(p, loc[p].caller, loc[p].cardId, "mu_ins2")
  /\ UNCHANGED <<users, user_rows, password_reset_tokens, cards, qr_exchange_tokens, exchange_requests, qr_exchange_logs, now, seq, prev>>

Mutual_Insert2(p) ==
  /\ pc[p] = "mu_ins2"
  /\ Cardinality(exchanges) < MaxExchanges
  /\ IF UniqueViolation(loc[p].otherOwner, loc[p].myCardId)
     THEN /\ Respond(p, loc[p], 500, "UniqueConstraint")
          /\ UNCHANGED exchanges
     ELSE IF ForeignKeyViolation({loc[p].otherOwner}, {loc[p].myCardId})
     THEN /\ Respond(p, loc[p], 500, "ForeignKey")
          /\ UNCHANGED exchanges
     ELSE /\ exchanges' = exchanges \cup {NewExchange(loc[p].otherOwner, loc[p].myCardId)}
          /\ Respond(p, [loc[p] EXCEPT !.ins = @ \cup {FreshExchangeId(loc[p].otherOwner, loc[p].myCardId)}], 200, "ok")
  /\ UNCHANGED <<users, user_rows, password_reset_tokens, cards, qr_exchange_tokens, exchange_requests, qr_exchange_logs, now, seq, prev>>

(* ======================= POST /exchanges/request ====================== *)
RequestRow(id, from, to, card, status, expires) ==
  [ id |-> id, from_user_id |-> from, to_user_id |-> to, card_id |-> card,
    status |-> status, expires_at |-> expires ]
FreshRequestId == FreshId("req", "-", "-", { r.id : r \in exchange_requests })

\* ... WHERE from_user_id = ? AND to_user_id = ? AND status = "pending"
\*     AND expires_at > datetime("now")
PendingBetween(from, to) ==
  { r \in exchange_requests :
      /\ r.from_user_id = from /\ r.to_user_id = to
      /\ r.status = "pending" /\ TextGT(r.expires_at, SqlText(now)) }

SendRequest_Start(p, caller, targetUserId, cardId) ==
  /\ pc[p] = "idle"
  /\   LET l == [ NewLoc("request", caller, NoToken, cardId, "-", NoId)
                    EXCEPT !.otherOwner = targetUserId ] IN
       IF targetUserId = Missing \/ cardId = Missing
       THEN Respond(p, l, 400, "TargetAndCardRequired")
       ELSE IF targetUserId = caller
       THEN Respond(p, l, 400, "SelfRequest")
       ELSE IF CardOwned(cardId, caller) = {}
       THEN Respond(p, l, 404, "NotOwner")
       ELSE Goto(p, l, "rq_user")
  /\ UNCHANGED <<tables, now, seq, prev>>

SendRequest_User(p) ==
  /\ pc[p] = "rq_user"
  /\ IF loc[p].otherOwner \notin users
     THEN Respond(p, loc[p], 404, "UserNotFound")
     ELSE Goto(p, loc[p], "rq_check")
  /\ UNCHANGED <<tables, now, seq, prev>>

SendRequest_Check(p) ==
  /\ pc[p] = "rq_check"
  /\ IF PendingBetween(loc[p].caller, loc[p].otherOwner) # {}
     THEN Respond(p, loc[p], 409, "AlreadyPending")
     ELSE Goto(p, loc[p], "rq_insert")
  /\ UNCHANGED <<tables, now, seq, prev>>

SendRequest_Insert(p) ==
  /\ pc[p] = "rq_insert"
  /\ Cardinality(exchange_requests) < MaxRequests
  /\ IF ForeignKeyViolation({loc[p].caller, loc[p].otherOwner}, {loc[p].cardId})
     THEN /\ Respond(p, loc[p], 500, "ForeignKey")
          /\ UNCHANGED exchange_requests
     ELSE /\ exchange_requests' = exchange_requests \cup
               { RequestRow(FreshRequestId, loc[p].caller, loc[p].otherOwner, loc[p].cardId,
                            "pending", SqlText(now + REQ_TTL)) }
          /\ Respond(p, [loc[p] EXCEPT !.ref = FreshRequestId], 200, "ok")
  /\ UNCHANGED <<users, user_rows, password_reset_tokens, cards, exchanges, qr_exchange_tokens, qr_exchange_logs, now, seq, prev>>

(* ================= POST /exchanges/requests/:id/respond =============== *)
\* SELECT * FROM exchange_requests WHERE id = ? AND to_user_id = ?
\*   AND status = "pending" AND expires_at > datetime("now")
OpenRequest_IgnoresExpiry(id, to) ==
  { r \in exchange_requests :
      /\ r.id = id /\ r.to_user_id = to
      /\ r.status = "pending" }
OpenRequest(id, to) ==
  { r \in exchange_requests :
      /\ r.id = id /\ r.to_user_id = to
      /\ r.status = "pending" /\ TextGT(r.expires_at, SqlText(now)) }

SetStatus(id, status) ==
  { IF r.id = id THEN [r EXCEPT !.status = status] ELSE r : r \in exchange_requests }

Respond_Start(p, caller, requestId, action, myCardId) ==
  /\ pc[p] = "idle"
  /\   LET request == OpenRequest(requestId, caller)
           card == IF request = {} THEN "-" ELSE (CHOOSE r \in request : TRUE).card_id
           l == [ NewLoc("respond_" \o action, caller, NoToken, "-", myCardId, requestId)
                    EXCEPT !.cardId = card ] IN
       IF action = "other"
       THEN Respond(p, l, 400, "BadAction")
       ELSE IF action = "accept" /\ myCardId = Missing
       THEN Respond(p, l, 400, "CardIdRequired")
       ELSE IF request = {}
       THEN Respond(p, l, 404, "RequestNotFound")
       ELSE IF action = "reject"
       THEN Goto(p, l, "rs_reject")
       ELSE Goto(p, l, "rs_mine")
  /\ UNCHANGED <<tables, now, seq, prev>>

Respond_Reject(p) ==
  /\ pc[p] = "rs_reject"
  /\ exchange_requests' = SetStatus(loc[p].ref, "rejected")
  /\ Respond(p, loc[p], 200, "ok")
  /\ UNCHANGED <<users, user_rows, password_reset_tokens, cards, exchanges, qr_exchange_tokens, qr_exchange_logs, now, seq, prev>>

Respond_Mine_AnyCard(p) ==
  /\ pc[p] = "rs_mine"
  /\ IF CardById(loc[p].myCardId) = {}
     THEN Respond(p, loc[p], 404, "NotOwner")
     ELSE Goto(p, loc[p], "rs_other")
  /\ UNCHANGED <<tables, now, seq, prev>>
Respond_Mine(p) ==
  /\ pc[p] = "rs_mine"
  /\ IF CardOwned(loc[p].myCardId, loc[p].caller) = {}
     THEN Respond(p, loc[p], 404, "NotOwner")
     ELSE Goto(p, loc[p], "rs_other")
  /\ UNCHANGED <<tables, now, seq, prev>>

Respond_Other(p) ==
  /\ pc[p] = "rs_other"
  /\ ResolveOther(p, "rs_ins1")
  /\ UNCHANGED <<tables, now, seq, prev>>

Respond_Insert1(p) ==
  /\ pc[p] = "rs_ins1"
  /\ InsertDirection(p, loc[p].caller, loc[p].cardId, "rs_ins2")
  /\ UNCHANGED <<users, user_rows, password_reset_tokens, cards, qr_exchange_tokens, exchange_requests, qr_exchange_logs, now, seq, prev>>

Respond_Insert2(p) ==
  /\ pc[p] = "rs_ins2"
  /\ InsertDirection(p, loc[p].otherOwner, loc[p].myCardId, "rs_accept")
  /\ UNCHANGED <<users, user_rows, password_reset_tokens, cards, qr_exchange_tokens, exchange_requests, qr_exchange_logs, now, seq, prev>>

Respond_Accept(p) ==
  /\ pc[p] = "rs_accept"
  /\ exchange_requests' = SetStatus(loc[p].ref, "accepted")
  /\ Respond(p, loc[p], 200, "ok")
  /\ UNCHANGED <<users, user_rows, password_reset_tokens, cards, exchanges, qr_exchange_tokens, qr_exchange_logs, now, seq, prev>>

(* ==================== POST /cleanup/expired-tokens ==================== *)
Cleanup_Tokens(p) ==
  /\ pc[p] = "idle"
  /\ qr_exchange_tokens' = { r \in qr_exchange_tokens : TextGT(r.expires_at, SqlText(now)) }
  /\ Goto(p, NewLoc("cleanup", "-", NoToken, "-", "-", NoId), "cl_requests")
  /\ UNCHANGED <<users, user_rows, password_reset_tokens, cards, exchanges, exchange_requests, qr_exchange_logs, now, seq, prev>>

Cleanup_Requests_AnyStatus(p) ==
  /\ pc[p] = "cl_requests"
  /\ exchange_requests' =
       { IF ~TextGT(r.expires_at, SqlText(now))
         THEN [r EXCEPT !.status = "expired"] ELSE r : r \in exchange_requests }
  /\ Respond(p, loc[p], 200, "ok")
  /\ UNCHANGED <<users, user_rows, password_reset_tokens, cards, exchanges, qr_exchange_tokens, qr_exchange_logs, now, seq, prev>>

Cleanup_Requests(p) ==
  /\ pc[p] = "cl_requests"
  /\ exchange_requests' =
       { IF r.status = "pending" /\ ~TextGT(r.expires_at, SqlText(now))
         THEN [r EXCEPT !.status = "expired"] ELSE r : r \in exchange_requests }
  /\ Respond(p, loc[p], 200, "ok")
  /\ UNCHANGED <<users, user_rows, password_reset_tokens, cards, exchanges, qr_exchange_tokens, qr_exchange_logs, now, seq, prev>>

(* ======================= GET /exchanges/qr-logs ======================= *)
\* SELECT ... FROM qr_exchange_logs l JOIN users .. JOIN cards .. JOIN cards ..
\*   WHERE l.qr_owner_user_id = ?
LogsOf_ByScanner(user) == { g \in qr_exchange_logs : g.scanner_user_id = user }
LogsOf(user) ==
  { g \in qr_exchange_logs :
      /\ g.qr_owner_user_id = user
      /\ g.scanner_user_id \in users
      /\ CardById(g.scanner_card_id) # {}
      /\ CardById(g.qr_card_id) # {} }

QrLogs_Start(p, caller) ==
  /\ pc[p] = "idle"
  /\   LET logs == LogsOf(caller)
           unnotifiedLogs == { g.id : g \in { x \in logs : x.notified = 0 } }
           l == [ NewLoc("feed", caller, NoToken, "-", "-", NoId)
                    EXCEPT !.ids = { g.id : g \in logs }, !.todo = unnotifiedLogs,
                           !.n = Cardinality(unnotifiedLogs) ] IN
       IF unnotifiedLogs = {}
       THEN Respond(p, l, 200, "ok")
       ELSE Goto(p, l, "feed_mark")
  /\ UNCHANGED <<tables, now, seq, prev>>

\* one iteration of `for (const logId of logIds)`:
\*   UPDATE qr_exchange_logs SET notified = 1 WHERE id = ?
\* (the rows come ORDER BY created_at DESC; rows of one second tie, so any order)
QrLogs_Mark_EveryRow(p) ==
  /\ pc[p] = "feed_mark"
  /\ \E logId \in loc[p].todo :
       /\ qr_exchange_logs' = { [g EXCEPT !.notified = 1] : g \in qr_exchange_logs }
       /\ LET l == [loc[p] EXCEPT !.todo = @ \ {logId}] IN
          IF l.todo = {} THEN Respond(p, l, 200, "ok") ELSE Goto(p, l, "feed_mark")
  /\ UNCHANGED <<users, user_rows, password_reset_tokens, cards, exchanges, qr_exchange_tokens, exchange_requests, now, seq, prev>>

QrLogs_Mark(p) ==
  /\ pc[p] = "feed_mark"
  /\ \E logId \in loc[p].todo :
       /\ qr_exchange_logs' =
            { IF g.id = logId THEN [g EXCEPT !.notified = 1] ELSE g : g \in qr_exchange_logs }
       /\ LET l == [loc[p] EXCEPT !.todo = @ \ {logId}] IN
          IF l.todo = {} THEN Respond(p, l, 200, "ok") ELSE Goto(p, l, "feed_mark")
  /\ UNCHANGED <<users, user_rows, password_reset_tokens, cards, exchanges, qr_exchange_tokens, exchange_requests, now, seq, prev>>

(* ==================== DELETE /exchanges/qr/logs/:id =================== *)
DeleteLog_Start_NoOwnerCheck(p, caller, logId) ==
  /\ pc[p] = "idle"
  /\   LET l == NewLoc("log_delete", caller, 0, "-", "-", logId)
           existingLog == { g \in qr_exchange_logs : g.id = logId } IN
       IF existingLog = {}
       THEN Respond(p, l, 404, "LogNotFound")
       ELSE Goto(p, l, "ld_run")
  /\ UNCHANGED <<tables, now, seq, prev>>

DeleteLog_Start(p, caller, logId) ==
  /\ pc[p] = "idle"
  /\   LET l == NewLoc("log_delete", caller, 0, "-", "-", logId)
           existingLog == { g \in qr_exchange_logs : g.id = logId } IN
       IF existingLog = {}
       THEN Respond(p, l, 404, "LogNotFound")
       ELSE IF \A g \in existingLog : g.qr_owner_user_id # caller /\ g.scanner_user_id # caller
       THEN Respond(p, l, 403, "NotAuthorized")
       ELSE Goto(p, l, "ld_run")
  /\ UNCHANGED <<tables, now, seq, prev>>

DeleteLog_Run(p) ==
  /\ pc[p] = "ld_run"
  /\ qr_exchange_logs' = { g \in qr_exchange_logs : g.id # loc[p].ref }
  /\ Respond(p, loc[p], 200, "ok")
  /\ UNCHANGED <<users, user_rows, password_reset_tokens, cards, exchanges, qr_exchange_tokens, exchange_requests, now, seq, prev>>

(* ========================== DELETE /cards/:id ========================= *)
\* ON DELETE CASCADE: what is left of the four tables when only the users us
\* and the cards cs remain
Cascade(us, cs) ==
  /\ exchanges' = { e \in exchanges : e.owner_user_id \in us /\ e.collected_card_id \in cs }
  /\ qr_exchange_tokens' = { r \in qr_exchange_tokens : r.user_id \in us /\ r.card_id \in cs }
  /\ exchange_requests' =
       { r \in exchange_requests : r.from_user_id \in us /\ r.to_user_id \in us /\ r.card_id \in cs }
  /\ qr_exchange_logs' =
       { g \in qr_exchange_logs :
           /\ g.qr_owner_user_id \in us /\ g.scanner_user_id \in us
           /\ g.scanner_card_id \in cs /\ g.qr_card_id \in cs }

DeleteCard_Start(p, caller, cardId) ==
  /\ pc[p] = "idle"
  /\   LET l == NewLoc("card_delete", caller, NoToken, cardId, "-", NoId) IN
       IF CardById(cardId) = {}
       THEN Respond(p, l, 404, "CardNotFound")
       ELSE IF OwnerOf(cardId) # caller
       THEN Respond(p, l, 403, "NotAuthorized")
       ELSE Goto(p, l, "cd_run")
  /\ UNCHANGED <<tables, now, seq, prev>>

\* DELETE FROM cards WHERE id = ?
DeleteCard_Run(p) ==
  /\ pc[p] = "cd_run"
  /\ cards' = { c \in cards : c.id # loc[p].cardId }
  /\ Cascade(users, CardIds \ {loc[p].cardId})
  /\ Respond(p, loc[p], 200, "ok")
  /\ UNCHANGED <<users, user_rows, password_reset_tokens, now, seq, prev>>

(* ============================ DELETE /auth/me ========================= *)
\* DELETE FROM users WHERE id = ?; result.meta.changes = 0 is answered 404.
\* password_reset_tokens.user_id references users(id) without ON DELETE
\* CASCADE, so the DELETE throws while a reset token of the user is stored.
DeleteAccount(p, caller) ==
  /\ pc[p] = "idle"
  /\   LET l == NewLoc("account_delete", caller, NoToken, "-", "-", NoId) IN
       IF caller \notin users
       THEN /\ Respond(p, l, 404, "UserNotFound")
            /\ UNCHANGED tables
       ELSE IF \E t \in password_reset_tokens : t.user_id = caller
       THEN /\ Respond(p, l, 500, "ForeignKey")
            /\ UNCHANGED tables
       ELSE /\ users' = users \ {caller}
            /\ user_rows' = [u \in users \ {caller} |-> user_rows[u]]
            /\ UNCHANGED password_reset_tokens
            /\ cards' = { c \in cards : c.user_id # caller }
            /\ Cascade(users \ {caller}, { c.id : c \in { x \in cards : x.user_id # caller } })
            /\ Respond(p, l, 200, "ok")
  /\ UNCHANGED <<now, seq, prev>>

(* ========================= POST /auth/register ======================== *)
MaxNameLength == 100
MinPasswordLength == 8
\* name is optional; a given name is a non-empty string of at most 100 characters
validateUserName(name) ==
  name = Missing \/ (Len(name) > 0 /\ Len(name) <= MaxNameLength)

\* SELECT id FROM users WHERE email = ?, and the UNIQUE constraint on users.email
EmailTaken(email) == \E u \in users : user_rows[u].email = email

\* crypto.randomUUID(): an id that no user row and no running handler holds
FreshUserId ==
  LET taken == users \cup { loc[p].otherOwner : p \in Procs }
      n == CHOOSE i \in 1..(MaxUsers + 1) :
             /\ ("N" \o ToString(i)) \notin taken
             /\ \A j \in 1..(i - 1) : ("N" \o ToString(j)) \in taken
  IN "N" \o ToString(n)

Register_Start(p, email, name, password) ==
  /\ pc[p] = "idle"
  /\   LET l == [ NewLoc("register", "-", NoToken, "-", "-", NoId)
                    EXCEPT !.email = email, !.password = password ] IN
       IF email = Missing \/ password = Missing
       THEN Respond(p, l, 400, "EmailAndPasswordRequired")
       ELSE IF ~validateUserName(name)
       THEN Respond(p, l, 400, "InvalidName")
       ELSE IF Len(password) < MinPasswordLength
       THEN Respond(p, l, 400, "PasswordTooShort")
       ELSE IF EmailTaken(email)
       THEN Respond(p, l, 409, "EmailExists")
       ELSE Goto(p, l, "rg_insert")
  /\ UNCHANGED <<tables, now, seq, prev>>

\* INSERT INTO users (id, email, name, hashed_password) VALUES (?, ?, ?, ?)
Register_Insert(p) ==
  /\ pc[p] = "rg_insert"
  /\ Cardinality(users) < MaxUsers
  /\ IF EmailTaken(loc[p].email)
     THEN /\ Respond(p, loc[p], 500, "UniqueConstraint")
          /\ UNCHANGED <<users, user_rows>>
     ELSE /\ users' = users \cup {FreshUserId}
          /\ user_rows' =
               [ u \in users \cup {FreshUserId} |->
                   IF u \in users THEN user_rows[u]
                   ELSE [UserRow(loc[p].email, loc[p].password) EXCEPT !.email_verified = 0] ]
          /\ Goto(p, [loc[p] EXCEPT !.otherOwner = FreshUserId], "rg_mail")
  /\ UNCHANGED <<password_reset_tokens, cards, exchanges, qr_exchange_tokens,
                 exchange_requests, qr_exchange_logs, now, seq, prev>>

\* sendVerificationEmail(...) resolves to true or false and never throws
Register_Mail_RollsBack(p) ==
  /\ pc[p] = "rg_mail"
  /\ \E delivered \in BOOLEAN :
       IF delivered
       THEN /\ Respond(p, [loc[p] EXCEPT !.emailSent = delivered], 201, "ok")
            /\ UNCHANGED <<users, user_rows>>
       ELSE /\ users' = users \ {loc[p].otherOwner}
            /\ user_rows' = [u \in users \ {loc[p].otherOwner} |-> user_rows[u]]
            /\ Respond(p, loc[p], 500, "MailFailed")
  /\ UNCHANGED <<password_reset_tokens, cards, exchanges, qr_exchange_tokens,
                 exchange_requests, qr_exchange_logs, now, seq, prev>>
Register_Mail(p) ==
  /\ pc[p] = "rg_mail"
  /\ \E delivered \in BOOLEAN :
       /\ Respond(p, [loc[p] EXCEPT !.emailSent = delivered], 201, "ok")
       /\ UNCHANGED <<users, user_rows>>
  /\ UNCHANGED <<password_reset_tokens, cards, exchanges, qr_exchange_tokens,
                 exchange_requests, qr_exchange_logs, now, seq, prev>>

(* ====================== POST /auth/reset-password ===================== *)
\* a row of password_reset_tokens
ResetTokenRow(token, user, used, expires) ==
  [ token |-> token, user_id |-> user, used |-> used, expires_at |-> expires ]

\* SELECT * FROM password_reset_tokens
\*   WHERE token = ? AND used = 0 AND expires_at > datetime("now")
UsableResetToken(token) ==
  { t \in password_reset_tokens :
      t.token = token /\ t.used = 0 /\ TextGT(t.expires_at, SqlText(now)) }

ResetPassword_Start(p, token, newPassword) ==
  /\ pc[p] = "idle"
  /\   LET resetToken == UsableResetToken(token)
           l == [ NewLoc("reset", "-", token, "-", "-", NoId) EXCEPT !.password = newPassword ] IN
       IF token = Missing \/ newPassword = Missing
       THEN Respond(p, l, 400, "TokenAndPasswordRequired")
       ELSE IF Len(newPassword) < MinPasswordLength
       THEN Respond(p, l, 400, "PasswordTooShort")
       ELSE IF resetToken = {}
       THEN Respond(p, l, 400, "InvalidOrExpiredResetToken")
       ELSE Goto(p, [l EXCEPT !.otherOwner = (CHOOSE t \in resetToken : TRUE).user_id], "rp_user")
  /\ UNCHANGED <<tables, now, seq, prev>>

\* SELECT id, email FROM users WHERE id = ?
ResetPassword_User(p) ==
  /\ pc[p] = "rp_user"
  /\ IF loc[p].otherOwner \notin users
     THEN Respond(p, loc[p], 404, "UserNotFound")
     ELSE Goto(p, loc[p], "rp_update")
  /\ UNCHANGED <<tables, now, seq, prev>>

\* UPDATE users SET hashed_password = ? WHERE id = ?
ResetPassword_Update(p) ==
  /\ pc[p] = "rp_update"
  /\ user_rows' = [ u \in users |->
                      IF u = loc[p].otherOwner
                      THEN [user_rows[u] EXCEPT !.hashed_password = hashPassword(loc[p].password)]
                      ELSE user_rows[u] ]
  /\ Goto(p, loc[p], "rp_mark")
  /\ UNCHANGED <<users, password_reset_tokens, cards, exchanges, qr_exchange_tokens,
                 exchange_requests, qr_exchange_logs, now, seq, prev>>

\* UPDATE password_reset_tokens SET used = 1 WHERE token = ?
ResetPassword_Mark(p) ==
  /\ pc[p] = "rp_mark"
  /\ password_reset_tokens' =
       { IF t.token = loc[p].token THEN [t EXCEPT !.used = 1] ELSE t : t \in password_reset_tokens }
  /\ Respond(p, loc[p], 200, "ok")
  /\ UNCHANGED <<users, user_rows, cards, exchanges, qr_exchange_tokens,
                 exchange_requests, qr_exchange_logs, now, seq, prev>>

(* ====================== POST /auth/forgot-password ==================== *)
\* "this link expires in one hour"
RESET_TTL == 60

\* SELECT id, email, name FROM users WHERE email = ? AND email_verified = 1
VerifiedUser(email) ==
  { u \in users : user_rows[u].email = email /\ user_rows[u].email_verified = 1 }

\* crypto.randomUUID(): a token string that no stored row holds
FreshResetToken ==
  LET taken == { t.token : t \in password_reset_tokens }
      n == CHOOSE i \in 1..(Cardinality(taken) + 1) :
             /\ ("T" \o ToString(i)) \notin taken
             /\ \A j \in 1..(i - 1) : ("T" \o ToString(j)) \in taken
  IN "T" \o ToString(n)

ForgotPassword_Start(p, email) ==
  /\ pc[p] = "idle"
  /\   LET l == [ NewLoc("forgot", "-", NoToken, "-", "-", NoId) EXCEPT !.email = email ]
           user == VerifiedUser(email) IN
       IF email = Missing
       THEN Respond(p, l, 400, "EmailRequired")
       ELSE IF user = {}
       THEN Respond(p, l, 200, "ok")
       ELSE Goto(p, [l EXCEPT !.otherOwner = CHOOSE u \in user : TRUE], "fp_invalidate")
  /\ UNCHANGED <<tables, now, seq, prev>>

\* UPDATE password_reset_tokens SET used = 1 WHERE user_id = ? AND used = 0
ForgotPassword_Invalidate(p) ==
  /\ pc[p] = "fp_invalidate"
  /\ password_reset_tokens' =
       { IF t.user_id = loc[p].otherOwner /\ t.used = 0 THEN [t EXCEPT !.used = 1] ELSE t :
           t \in password_reset_tokens }
  /\ Goto(p, loc[p], "fp_insert")
  /\ UNCHANGED <<users, user_rows, cards, exchanges, qr_exchange_tokens,
                 exchange_requests, qr_exchange_logs, now, seq, prev>>

\* INSERT INTO password_reset_tokens (token, user_id, email) VALUES (?, ?, ?)
\* The statement gives no expires_at.  With the table as the README prints it
\* (expires_at NOT NULL, no default) the INSERT fails and the handler answers
\* 500; with a table whose expires_at defaults to one hour from now the row is
\* stored.  The mail that follows is sent in its own try/catch and changes no
\* table, so the answer is 200 once the row is stored.
ForgotPassword_Insert(p) ==
  /\ pc[p] = "fp_insert"
  /\ Cardinality(password_reset_tokens) < MaxTokens
  /\ \/ /\ Respond(p, loc[p], 500, "NotNull")
        /\ UNCHANGED password_reset_tokens
     \/ /\ ForeignKeyViolation({loc[p].otherOwner}, {})
        /\ Respond(p, loc[p], 500, "ForeignKey")
        /\ UNCHANGED password_reset_tokens
     \/ /\ ~ForeignKeyViolation({loc[p].otherOwner}, {})
        /\ password_reset_tokens' = password_reset_tokens \cup
             { ResetTokenRow(FreshResetToken, loc[p].otherOwner, 0, SqlText(now + RESET_TTL)) }
        /\ Respond(p, [loc[p] EXCEPT !.token = FreshResetToken], 200, "ok")
  /\ UNCHANGED <<users, user_rows, cards, exchanges, qr_exchange_tokens,
                 exchange_requests, qr_exchange_logs, now, seq, prev>>

(* ============================ environment ============================= *)
\* the response has been sent; the isolate is free for the next request
Return(p) ==
  /\ pc[p] = "done"
  /\ pc' = [pc EXCEPT ![p] = "idle"]
  /\ loc' = [loc EXCEPT ![p] = IdleLoc]
  /\ UNCHANGED <<tables, now, seq, prev>>

Tick ==
  /\ now + TickStep <= MaxTime
  /\ now' = now + TickStep
  /\ UNCHANGED <<tables, seq, pc, loc, prev>>

\* what the client knows of the call it just made: the request it sent, and
\* whether it was answered (which ledger rows that call had written, which
\* feed entries it got)
Remember(l, how, at) ==
  [ loc |-> [ IdleLoc EXCEPT !.op = l.op, !.caller = l.caller, !.token = l.token,
                             !.cardId = l.cardId, !.myCardId = l.myCardId,
                             !.ref = l.ref, !.req = l.req, !.status = l.status,
                             !.ins = l.ins, !.ids = l.ids, !.n = l.n ],
    at |-> now, how |-> how, pc |-> at ]

\* the response has been sent and the client remembers the call it just made
ReturnSeq(p) ==
  /\ pc[p] = "done"
  /\ pc' = [pc EXCEPT ![p] = "idle"]
  /\ loc' = [loc EXCEPT ![p] = IdleLoc]
  /\ prev' = IF loc[p].status = 200 THEN Remember(loc[p], "done", "done") ELSE NoPrev
  /\ UNCHANGED <<tables, now, seq>>

\* the isolate dies between two statements (CPU limit, eviction, network loss)
Crash(p) ==
  /\ pc[p] \notin {"idle", "done"}
  /\ pc' = [pc EXCEPT ![p] = "idle"]
  /\ loc' = [loc EXCEPT ![p] = IdleLoc]
  /\ prev' = Remember(loc[p], "crash", pc[p])
  /\ UNCHANGED <<tables, now, seq>>

(* ============================== requests ============================== *)
\* everything a client can put in a request ...
AnyCard == CardIds \cup {Ghost, Missing}
AnyUser == users \cup {Ghost, Missing}
AnyQR == QRInputs \cup {NullQR}
AnyUrl == UrlInputs \cup {NullUrl}
AnyAction == {"accept", "reject", "other"}
\* ... and what the app sends: an existing card, a QR code or share URL as it
\* was issued (the raw token or the full payload), accept or reject
Actions == {"accept", "reject"}
OwnCards(u) == { c.id : c \in { x \in cards : x.user_id = u } }
IssuedTokens == { OpaqueQR(r.token) : r \in qr_exchange_tokens }
HonestQR ==
  IssuedTokens
  \cup { QRData("json", "card_exchange", r.card_id, r.user_id, r.token, r.created_at.t) :
           r \in qr_exchange_tokens }
\* a code that was issued at some time, as a raw token or as a payload naming
\* any card and any past time
PresentedQR ==
  { OpaqueQR(t) : t \in 1..(seq.tok - 1) }
  \cup { QRData("json", "card_exchange", c, OwnerOf(c), t, ts) :
           c \in CardIds, t \in 1..(seq.tok - 1), ts \in { x \in Times : x <= now } }
HonestUrl == { IssueUrlToken(c.id, c.user_id, 0) : c \in cards }

(* =========================== specifications =========================== *)
\* every user has shown a QR code a moment ago
TokensIssued ==
  qr_exchange_tokens =
    { TokenRow(1, "A", "A1", SqlText(0), SqlText(QR_TTL)),
      TokenRow(2, "B", "B1", SqlText(0), SqlText(QR_TTL)) }

\* A has asked B, who is nearby, to exchange A's card
RequestSent ==
  exchange_requests =
    { RequestRow(RowId("req", "-", "-", 1), "A", "B", "A1", "pending", SqlText(REQ_TTL)) }

\* both QR codes are on show and nothing has been exchanged yet
InitShown ==
  /\ TwoUsers
  /\ exchanges = {}
  /\ TokensIssued
  /\ exchange_requests = {}
  /\ qr_exchange_logs = {}
  /\ now = 0
  /\ seq = [tok |-> 3, urls |-> {}]
  /\ InitProcs

InitLedger ==
  /\ TwoUsers
  /\ exchanges = {}
  /\ TokensIssued
  /\ RequestSent
  /\ qr_exchange_logs = {}
  /\ now = 0
  /\ seq = [tok |-> 3, urls |-> {}]
  /\ InitProcs

\* the ledger under concurrency: two requests in flight at a time, every
\* transport that writes the ledger, and ledger delete, with both users' QR
\* codes on show
NextLedger ==
  \/ \E p \in Peers, caller \in users :
       \E c \in CardIds : PostExchange_Start(p, caller, c)
  \/ \E p \in Peers : PostExchange_Check(p)
  \/ \E p \in Peers : PostExchange_Insert(p)
  \/ \E p \in Peers, caller \in users :
       \E id \in { e.id : e \in exchanges } \cup {NoId} : DeleteExchange_Start(p, caller, id)
  \/ \E p \in Peers : DeleteExchange_Run(p)
  \/ \E p \in Peers, caller \in users :
       \E q \in IssuedTokens, c \in OwnCards(caller) : QrExchange_Start(p, caller, q, c)
  \/ \E p \in Peers : QrExchange_Other(p)
  \/ \E p \in Peers : QrExchange_Mine(p)
  \/ \E p \in Peers : QrExchange_Existing1(p)
  \/ \E p \in Peers : QrExchange_Existing2(p)
  \/ \E p \in Peers : QrExchange_Insert1(p)
  \/ \E p \in Peers : QrExchange_Insert2(p)
  \/ \E p \in Peers : QrExchange_Log(p)
  \/ \E p \in Peers, caller \in users :
       \E t \in HonestUrl, c \in OwnCards(caller) : Mutual_Start(p, caller, t, c)
  \/ \E p \in Peers : Mutual_Mine(p)
  \/ \E p \in Peers : Mutual_Existing1(p)
  \/ \E p \in Peers : Mutual_Existing2(p)
  \/ \E p \in Peers : Mutual_Insert1(p)
  \/ \E p \in Peers : Mutual_Insert2(p)
  \/ \E p \in Peers, caller \in users :
       \E id \in { r.id : r \in exchange_requests } \cup {NoId}, a \in Actions, c \in OwnCards(caller) : Respond_Start(p, caller, id, a, c)
  \/ \E p \in Peers : Respond_Reject(p)
  \/ \E p \in Peers : Respond_Mine(p)
  \/ \E p \in Peers : Respond_Other(p)
  \/ \E p \in Peers : Respond_Insert1(p)
  \/ \E p \in Peers : Respond_Insert2(p)
  \/ \E p \in Peers : Respond_Accept(p)

SpecLedger == InitLedger /\ [][NextLedger]_vars

\* one client, one request at a time, from an empty database: QR codes are
\* issued by either route and redeemed while the clock advances
Next ==
  \/ \E p \in SeqProcs, caller \in users :
       \E c \in AnyCard : QrGenerate_Start(p, caller, c)
  \/ \E p \in SeqProcs : QrGenerate_Delete(p)
  \/ \E p \in SeqProcs : QrGenerate_Insert(p)
  \/ \E p \in SeqProcs, caller \in users :
       \E c \in AnyCard \ {Missing} : CardsGenerateQr_Start(p, caller, c)
  \/ \E p \in SeqProcs : CardsGenerateQr_Insert(p)
  \/ \E p \in SeqProcs, caller \in users :
       \E q \in PresentedQR, c \in AnyCard : QrExchange_Start(p, caller, q, c)
  \/ \E p \in SeqProcs : QrExchange_Other(p)
  \/ \E p \in SeqProcs : QrExchange_Mine(p)
  \/ \E p \in SeqProcs : QrExchange_Existing1(p)
  \/ \E p \in SeqProcs : QrExchange_Existing2(p)
  \/ \E p \in SeqProcs : QrExchange_Insert1(p)
  \/ \E p \in SeqProcs : QrExchange_Insert2(p)
  \/ \E p \in SeqProcs : QrExchange_Log(p)
  \/ \E p \in SeqProcs : Return(p)
  \/ Tick

Spec == Init /\ [][Next]_vars

\* one client redeems the codes on show, by either QR route, and polls the
\* scan feed
NextRedeem ==
  \/ \E p \in SeqProcs, caller \in users :
       \E q \in AnyQR, c \in AnyCard : QrExchange_Start(p, caller, q, c)
  \/ \E p \in SeqProcs : QrExchange_Other(p)
  \/ \E p \in SeqProcs : QrExchange_Mine(p)
  \/ \E p \in SeqProcs : QrExchange_Existing1(p)
  \/ \E p \in SeqProcs : QrExchange_Existing2(p)
  \/ \E p \in SeqProcs : QrExchange_Insert1(p)
  \/ \E p \in SeqProcs : QrExchange_Insert2(p)
  \/ \E p \in SeqProcs : QrExchange_Log(p)
  \/ \E p \in SeqProcs, caller \in users :
       \E q \in AnyQR, c \in AnyCard : QrConsume_Start(p, caller, q, c)
  \/ \E p \in SeqProcs : QrConsume_Other(p)
  \/ \E p \in SeqProcs : QrConsume_Mine(p)
  \/ \E p \in SeqProcs : QrConsume_Existing1(p)
  \/ \E p \in SeqProcs : QrConsume_Existing2(p)
  \/ \E p \in SeqProcs : QrConsume_Insert1(p)
  \/ \E p \in SeqProcs : QrConsume_Insert2(p)
  \/ \E p \in SeqProcs : QrConsume_DeleteToken(p)
  \/ \E p \in SeqProcs, caller \in users :
       QrLogs_Start(p, caller)
  \/ \E p \in SeqProcs : QrLogs_Mark(p)
  \/ \E p \in SeqProcs : ReturnSeq(p)

SpecRedeem == InitShown /\ [][NextRedeem]_vars

\* one client that repeats or retries its calls: every call is remembered when
\* it returns or when its isolate dies between two statements
NextRetry ==
  \/ \E p \in SeqProcs, caller \in users :
       \E c \in CardIds : PostExchange_Start(p, caller, c)
  \/ \E p \in SeqProcs : PostExchange_Check(p)
  \/ \E p \in SeqProcs : PostExchange_Insert(p)
  \/ \E p \in SeqProcs, caller \in users :
       \E q \in HonestQR, c \in CardIds : QrExchange_Start(p, caller, q, c)
  \/ \E p \in SeqProcs : QrExchange_Other(p)
  \/ \E p \in SeqProcs : QrExchange_Mine(p)
  \/ \E p \in SeqProcs : QrExchange_Existing1(p)
  \/ \E p \in SeqProcs : QrExchange_Existing2(p)
  \/ \E p \in SeqProcs : QrExchange_Insert1(p)
  \/ \E p \in SeqProcs : QrExchange_Insert2(p)
  \/ \E p \in SeqProcs : QrExchange_Log(p)
  \/ \E p \in SeqProcs, caller \in users :
       \E t \in HonestUrl, c \in CardIds : Mutual_Start(p, caller, t, c)
  \/ \E p \in SeqProcs : Mutual_Mine(p)
  \/ \E p \in SeqProcs : Mutual_Existing1(p)
  \/ \E p \in SeqProcs : Mutual_Existing2(p)
  \/ \E p \in SeqProcs : Mutual_Insert1(p)
  \/ \E p \in SeqProcs : Mutual_Insert2(p)
  \/ \E p \in SeqProcs, caller \in users :
       \E u \in users, c \in CardIds : SendRequest_Start(p, caller, u, c)
  \/ \E p \in SeqProcs : SendRequest_User(p)
  \/ \E p \in SeqProcs : SendRequest_Check(p)
  \/ \E p \in SeqProcs : SendRequest_Insert(p)
  \/ \E p \in SeqProcs, caller \in users :
       \E id \in { r.id : r \in exchange_requests } \cup {NoId}, a \in Actions, c \in CardIds : Respond_Start(p, caller, id, a, c)
  \/ \E p \in SeqProcs : Respond_Reject(p)
  \/ \E p \in SeqProcs : Respond_Mine(p)
  \/ \E p \in SeqProcs : Respond_Other(p)
  \/ \E p \in SeqProcs : Respond_Insert1(p)
  \/ \E p \in SeqProcs : Respond_Insert2(p)
  \/ \E p \in SeqProcs : Respond_Accept(p)
  \/ \E p \in SeqProcs : ReturnSeq(p)
  \/ \E p \in SeqProcs : Crash(p)

SpecRetry == InitShown /\ [][NextRetry]_vars

\* one client, one request at a time, every transport that writes the ledger
\* and every request a client can send
NextTransports ==
  \/ \E p \in SeqProcs, caller \in users :
       \E c \in AnyCard : PostExchange_Start(p, caller, c)
  \/ \E p \in SeqProcs : PostExchange_Check(p)
  \/ \E p \in SeqProcs : PostExchange_Insert(p)
  \/ \E p \in SeqProcs, caller \in users :
       \E q \in AnyQR, c \in AnyCard : QrExchange_Start(p, caller, q, c)
  \/ \E p \in SeqProcs : QrExchange_Other(p)
  \/ \E p \in SeqProcs : QrExchange_Mine(p)
  \/ \E p \in SeqProcs : QrExchange_Existing1(p)
  \/ \E p \in SeqProcs : QrExchange_Existing2(p)
  \/ \E p \in SeqProcs : QrExchange_Insert1(p)
  \/ \E p \in SeqProcs : QrExchange_Insert2(p)
  \/ \E p \in SeqProcs : QrExchange_Log(p)
  \/ \E p \in SeqProcs, caller \in users :
       \E q \in AnyQR, c \in AnyCard : QrConsume_Start(p, caller, q, c)
  \/ \E p \in SeqProcs : QrConsume_Other(p)
  \/ \E p \in SeqProcs : QrConsume_Mine(p)
  \/ \E p \in SeqProcs : QrConsume_Existing1(p)
  \/ \E p \in SeqProcs : QrConsume_Existing2(p)
  \/ \E p \in SeqProcs : QrConsume_Insert1(p)
  \/ \E p \in SeqProcs : QrConsume_Insert2(p)
  \/ \E p \in SeqProcs : QrConsume_DeleteToken(p)
  \/ \E p \in SeqProcs, caller \in users :
       \E t \in AnyUrl, c \in AnyCard : Mutual_Start(p, caller, t, c)
  \/ \E p \in SeqProcs : Mutual_Mine(p)
  \/ \E p \in SeqProcs : Mutual_Existing1(p)
  \/ \E p \in SeqProcs : Mutual_Existing2(p)
  \/ \E p \in SeqProcs : Mutual_Insert1(p)
  \/ \E p \in SeqProcs : Mutual_Insert2(p)
  \/ \E p \in SeqProcs, caller \in users :
       \E u \in AnyUser, c \in AnyCard : SendRequest_Start(p, caller, u, c)
  \/ \E p \in SeqProcs : SendRequest_User(p)
  \/ \E p \in SeqProcs : SendRequest_Check(p)
  \/ \E p \in SeqProcs : SendRequest_Insert(p)
  \/ \E p \in SeqProcs, caller \in users :
       \E id \in { r.id : r \in exchange_requests } \cup {NoId}, a \in AnyAction, c \in AnyCard : Respond_Start(p, caller, id, a, c)
  \/ \E p \in SeqProcs : Respond_Reject(p)
  \/ \E p \in SeqProcs : Respond_Mine(p)
  \/ \E p \in SeqProcs : Respond_Other(p)
  \/ \E p \in SeqProcs : Respond_Insert1(p)
  \/ \E p \in SeqProcs : Respond_Insert2(p)
  \/ \E p \in SeqProcs : Respond_Accept(p)
  \/ \E p \in SeqProcs : Return(p)

SpecTransports == InitShown /\ [][NextTransports]_vars

\* A shows one QR code to a crowd: B and C both scan it
ThreeUsers ==
  /\ users = {"A", "B", "C"}
  /\ Registered
  /\ cards = { CardRow("A1", "A"), CardRow("B1", "B"), CardRow("C1", "C") }

InitCrowd ==
  /\ ThreeUsers
  /\ exchanges = {}
  /\ qr_exchange_tokens = { TokenRow(1, "A", "A1", SqlText(0), SqlText(QR_TTL)) }
  /\ exchange_requests = {}
  /\ qr_exchange_logs = {}
  /\ now = 0
  /\ seq = [tok |-> 2, urls |-> {}]
  /\ InitProcs

\* two clients redeem the codes on show at the same time
NextRace ==
  \/ \E p \in Racers, caller \in users :
       \E q \in HonestQR, c \in CardIds : QrExchange_Start(p, caller, q, c)
  \/ \E p \in Racers : QrExchange_Other(p)
  \/ \E p \in Racers : QrExchange_Mine(p)
  \/ \E p \in Racers : QrExchange_Existing1(p)
  \/ \E p \in Racers : QrExchange_Existing2(p)
  \/ \E p \in Racers : QrExchange_Insert1(p)
  \/ \E p \in Racers : QrExchange_Insert2(p)
  \/ \E p \in Racers : QrExchange_Log(p)
  \/ \E p \in Racers : Return(p)

SpecRace == InitShown /\ [][NextRace]_vars

\* the crowd scans A's code on the token-consuming route, two scans at a time
NextConsume ==
  \/ \E p \in Racers, caller \in users :
       \E q \in HonestQR, c \in OwnCards(caller) : QrConsume_Start(p, caller, q, c)
  \/ \E p \in Racers : QrConsume_Other(p)
  \/ \E p \in Racers : QrConsume_Mine(p)
  \/ \E p \in Racers : QrConsume_Existing1(p)
  \/ \E p \in Racers : QrConsume_Existing2(p)
  \/ \E p \in Racers : QrConsume_Insert1(p)
  \/ \E p \in Racers : QrConsume_Insert2(p)
  \/ \E p \in Racers : QrConsume_DeleteToken(p)
  \/ \E p \in Racers : Return(p)

SpecConsume == InitCrowd /\ [][NextConsume]_vars

\* the crowd scans A's code on the instant route, one scan after the other,
\* while the clock advances
NextCrowd ==
  \/ \E p \in SeqProcs, caller \in users :
       \E q \in HonestQR, c \in OwnCards(caller) : QrExchange_Start(p, caller, q, c)
  \/ \E p \in SeqProcs : QrExchange_Other(p)
  \/ \E p \in SeqProcs : QrExchange_Mine(p)
  \/ \E p \in SeqProcs : QrExchange_Existing1(p)
  \/ \E p \in SeqProcs : QrExchange_Existing2(p)
  \/ \E p \in SeqProcs : QrExchange_Insert1(p)
  \/ \E p \in SeqProcs : QrExchange_Insert2(p)
  \/ \E p \in SeqProcs : QrExchange_Log(p)
  \/ \E p \in SeqProcs : Return(p)
  \/ Tick

SpecCrowd == InitCrowd /\ [][NextCrowd]_vars

\* one client, from an empty database: credentials are issued on the three
\* issue routes and share URL tokens, issued or made up, are redeemed
NextShare ==
  \/ \E p \in SeqProcs, caller \in users :
       \E c \in AnyCard : QrGenerate_Start(p, caller, c)
  \/ \E p \in SeqProcs : QrGenerate_Delete(p)
  \/ \E p \in SeqProcs : QrGenerate_Insert(p)
  \/ \E p \in SeqProcs, caller \in users :
       \E c \in AnyCard \ {Missing} : CardsGenerateQr_Start(p, caller, c)
  \/ \E p \in SeqProcs : CardsGenerateQr_Insert(p)
  \/ \E p \in SeqProcs, caller \in users :
       \E c \in AnyCard : GenerateExchangeUrl(p, caller, c)
  \/ \E p \in SeqProcs, caller \in users :
       \E t \in AnyUrl, c \in AnyCard : Mutual_Start(p, caller, t, c)
  \/ \E p \in SeqProcs : Mutual_Mine(p)
  \/ \E p \in SeqProcs : Mutual_Existing1(p)
  \/ \E p \in SeqProcs : Mutual_Existing2(p)
  \/ \E p \in SeqProcs : Mutual_Insert1(p)
  \/ \E p \in SeqProcs : Mutual_Insert2(p)
  \/ \E p \in SeqProcs : Return(p)

SpecShare == Init /\ [][NextShare]_vars

\* the recipient answers A's pending request from two devices at once while
\* the clock advances and the cleanup job runs
NextRespond ==
  \/ \E p \in Racers, caller \in users :
       \E id \in { r.id : r \in exchange_requests } \cup {NoId}, a \in Actions, c \in OwnCards(caller) : Respond_Start(p, caller, id, a, c)
  \/ \E p \in Racers : Respond_Reject(p)
  \/ \E p \in Racers : Respond_Mine(p)
  \/ \E p \in Racers : Respond_Other(p)
  \/ \E p \in Racers : Respond_Insert1(p)
  \/ \E p \in Racers : Respond_Insert2(p)
  \/ \E p \in Racers : Respond_Accept(p)
  \/ \E p \in Racers : Cleanup_Tokens(p)
  \/ \E p \in Racers : Cleanup_Requests(p)
  \/ \E p \in Racers : Return(p)
  \/ Tick

SpecRespond == InitLedger /\ [][NextRespond]_vars

\* A's request to B is pending and no QR code has been issued yet
InitSweep ==
  /\ TwoUsers
  /\ exchanges = {}
  /\ qr_exchange_tokens = {}
  /\ RequestSent
  /\ qr_exchange_logs = {}
  /\ now = 0
  /\ seq = [tok |-> 1, urls |-> {}]
  /\ InitProcs

\* the cleanup job runs, possibly twice at once, while QR codes are issued on
\* both issue routes, the request is answered and the clock advances
NextSweep ==
  \/ \E p \in Racers, caller \in users :
       \E c \in OwnCards(caller) : QrGenerate_Start(p, caller, c)
  \/ \E p \in Racers : QrGenerate_Delete(p)
  \/ \E p \in Racers : QrGenerate_Insert(p)
  \/ \E p \in Racers, caller \in users :
       \E c \in OwnCards(caller) : CardsGenerateQr_Start(p, caller, c)
  \/ \E p \in Racers : CardsGenerateQr_Insert(p)
  \/ \E p \in Racers, caller \in users :
       \E id \in { r.id : r \in exchange_requests } \cup {NoId}, a \in Actions, c \in OwnCards(caller) : Respond_Start(p, caller, id, a, c)
  \/ \E p \in Racers : Respond_Reject(p)
  \/ \E p \in Racers : Respond_Mine(p)
  \/ \E p \in Racers : Respond_Other(p)
  \/ \E p \in Racers : Respond_Insert1(p)
  \/ \E p \in Racers : Respond_Insert2(p)
  \/ \E p \in Racers : Respond_Accept(p)
  \/ \E p \in Racers : Cleanup_Tokens(p)
  \/ \E p \in Racers : Cleanup_Requests(p)
  \/ \E p \in Racers : Return(p)
  \/ Tick

SpecSweep == InitSweep /\ [][NextSweep]_vars

\* cards are collected by single add, and the entries are edited and deleted
\* by either user, two requests at a time
NextOwner ==
  \/ \E p \in Racers, caller \in users :
       \E c \in AnyCard : PostExchange_Start(p, caller, c)
  \/ \E p \in Racers : PostExchange_Check(p)
  \/ \E p \in Racers : PostExchange_Insert(p)
  \/ \E p \in Racers, caller \in users :
       \E id \in { e.id : e \in exchanges } \cup {NoId}, m \in Memos, l \in Locations : UpdateExchange_Start(p, caller, id, m, l)
  \/ \E p \in Racers : UpdateExchange_Run(p)
  \/ \E p \in Racers, caller \in users :
       \E id \in { e.id : e \in exchanges } \cup {NoId} : DeleteExchange_Start(p, caller, id)
  \/ \E p \in Racers : DeleteExchange_Run(p)
  \/ \E p \in Racers : Return(p)

SpecOwner == Init /\ [][NextOwner]_vars

\* the crowd scans A's code on the instant route; the scans are read in the
\* feed and their log entries deleted by any of the three users
NextLog ==
  \/ \E p \in SeqProcs, caller \in users :
       \E q \in HonestQR, c \in OwnCards(caller) : QrExchange_Start(p, caller, q, c)
  \/ \E p \in SeqProcs : QrExchange_Other(p)
  \/ \E p \in SeqProcs : QrExchange_Mine(p)
  \/ \E p \in SeqProcs : QrExchange_Existing1(p)
  \/ \E p \in SeqProcs : QrExchange_Existing2(p)
  \/ \E p \in SeqProcs : QrExchange_Insert1(p)
  \/ \E p \in SeqProcs : QrExchange_Insert2(p)
  \/ \E p \in SeqProcs : QrExchange_Log(p)
  \/ \E p \in SeqProcs, caller \in users :
       QrLogs_Start(p, caller)
  \/ \E p \in SeqProcs : QrLogs_Mark(p)
  \/ \E p \in SeqProcs, caller \in users :
       \E id \in { g.id : g \in qr_exchange_logs } \cup {NoId} : DeleteLog_Start(p, caller, id)
  \/ \E p \in SeqProcs : DeleteLog_Run(p)
  \/ \E p \in SeqProcs : Return(p)

SpecLog == InitCrowd /\ [][NextLog]_vars

\* the holders of a JWT and the card ids they know: a deleted account's token
\* still passes authMiddleware, and a deleted card's id can still be sent
Accounts == {"A", "B"}
KnownCards == {"A1", "B1"}

\* cards and accounts are deleted while cards are collected, QR codes issued
\* and redeemed and the proximity request sent and answered: one request that
\* writes and one that deletes at a time
NextCascade ==
  \/ \E p \in SeqProcs, caller \in Accounts :
       \E c \in KnownCards : PostExchange_Start(p, caller, c)
  \/ \E p \in SeqProcs : PostExchange_Check(p)
  \/ \E p \in SeqProcs : PostExchange_Insert(p)
  \/ \E p \in SeqProcs, caller \in Accounts :
       \E c \in KnownCards : QrGenerate_Start(p, caller, c)
  \/ \E p \in SeqProcs : QrGenerate_Delete(p)
  \/ \E p \in SeqProcs : QrGenerate_Insert(p)
  \/ \E p \in SeqProcs, caller \in Accounts :
       \E q \in HonestQR, c \in KnownCards : QrExchange_Start(p, caller, q, c)
  \/ \E p \in SeqProcs : QrExchange_Other(p)
  \/ \E p \in SeqProcs : QrExchange_Mine(p)
  \/ \E p \in SeqProcs : QrExchange_Existing1(p)
  \/ \E p \in SeqProcs : QrExchange_Existing2(p)
  \/ \E p \in SeqProcs : QrExchange_Insert1(p)
  \/ \E p \in SeqProcs : QrExchange_Insert2(p)
  \/ \E p \in SeqProcs : QrExchange_Log(p)
  \/ \E p \in SeqProcs, caller \in Accounts :
       \E q \in HonestQR, c \in KnownCards : QrConsume_Start(p, caller, q, c)
  \/ \E p \in SeqProcs : QrConsume_Other(p)
  \/ \E p \in SeqProcs : QrConsume_Mine(p)
  \/ \E p \in SeqProcs : QrConsume_Existing1(p)
  \/ \E p \in SeqProcs : QrConsume_Existing2(p)
  \/ \E p \in SeqProcs : QrConsume_Insert1(p)
  \/ \E p \in SeqProcs : QrConsume_Insert2(p)
  \/ \E p \in SeqProcs : QrConsume_DeleteToken(p)
  \/ \E p \in SeqProcs, caller \in Accounts :
       \E t \in HonestUrl, c \in KnownCards : Mutual_Start(p, caller, t, c)
  \/ \E p \in SeqProcs : Mutual_Mine(p)
  \/ \E p \in SeqProcs : Mutual_Existing1(p)
  \/ \E p \in SeqProcs : Mutual_Existing2(p)
  \/ \E p \in SeqProcs : Mutual_Insert1(p)
  \/ \E p \in SeqProcs : Mutual_Insert2(p)
  \/ \E p \in SeqProcs, caller \in Accounts :
       \E u \in Accounts, c \in KnownCards : SendRequest_Start(p, caller, u, c)
  \/ \E p \in SeqProcs : SendRequest_User(p)
  \/ \E p \in SeqProcs : SendRequest_Check(p)
  \/ \E p \in SeqProcs : SendRequest_Insert(p)
  \/ \E p \in SeqProcs, caller \in Accounts :
       \E id \in { r.id : r \in exchange_requests } \cup {NoId}, a \in Actions, c \in KnownCards : Respond_Start(p, caller, id, a, c)
  \/ \E p \in SeqProcs : Respond_Reject(p)
  \/ \E p \in SeqProcs : Respond_Mine(p)
  \/ \E p \in SeqProcs : Respond_Other(p)
  \/ \E p \in SeqProcs : Respond_Insert1(p)
  \/ \E p \in SeqProcs : Respond_Insert2(p)
  \/ \E p \in SeqProcs : Respond_Accept(p)
  \/ \E p \in Racers \ SeqProcs, caller \in Accounts :
       \E c \in KnownCards : DeleteCard_Start(p, caller, c)
  \/ \E p \in Racers \ SeqProcs : DeleteCard_Run(p)
  \/ \E p \in Racers \ SeqProcs, caller \in Accounts :
       DeleteAccount(p, caller)
  \/ \E p \in Racers : Return(p)

\* A's QR code is on show and A has asked B to exchange
InitCascade ==
  /\ TwoUsers
  /\ exchanges = {}
  /\ qr_exchange_tokens = { TokenRow(1, "A", "A1", SqlText(0), SqlText(QR_TTL)) }
  /\ RequestSent
  /\ qr_exchange_logs = {}
  /\ now = 0
  /\ seq = [tok |-> 2, urls |-> {}]
  /\ InitProcs

SpecCascade == InitCascade /\ [][NextCascade]_vars

\* what a client can send as a reset token and as a new password
ResetTokens == {"T1", Ghost, Missing}
Passwords == {"password-1", "password-2", "short", Missing}

\* A has asked for a password reset and holds the token that was mailed
InitReset ==
  /\ users = {"A", "B"}
  /\ user_rows = [u \in users |-> UserRow(u \o "@mail", "password-0")]
  /\ password_reset_tokens = { ResetTokenRow("T1", "A", 0, SqlText(RESET_TTL)) }
  /\ cards = { CardRow("A1", "A"), CardRow("B1", "B") }
  /\ exchanges = {}
  /\ qr_exchange_tokens = {}
  /\ exchange_requests = {}
  /\ qr_exchange_logs = {}
  /\ now = 0
  /\ seq = [tok |-> 1, urls |-> {}]
  /\ InitProcs

\* the reset link is used, possibly from two tabs at once, while the clock
\* advances
NextReset ==
  \/ \E p \in Racers, t \in ResetTokens :
       \E w \in Passwords : ResetPassword_Start(p, t, w)
  \/ \E p \in Racers : ResetPassword_User(p)
  \/ \E p \in Racers : ResetPassword_Update(p)
  \/ \E p \in Racers : ResetPassword_Mark(p)
  \/ \E p \in Racers : Return(p)
  \/ Tick

SpecReset == InitReset /\ [][NextReset]_vars

\* what a client can send as an address and as a name
EmailInputs == {"A@mail", "new@mail", "other@mail", Missing}
Names == {"name", "", Missing}

\* accounts are registered, two requests at a time, and the mail provider
\* delivers or fails
NextRegister ==
  \/ \E p \in Racers, e \in EmailInputs :
       \E n \in Names, w \in Passwords : Register_Start(p, e, n, w)
  \/ \E p \in Racers : Register_Insert(p)
  \/ \E p \in Racers : Register_Mail(p)
  \/ \E p \in Racers : Return(p)

SpecRegister == Init /\ [][NextRegister]_vars


\* A and B scan each other's code (one scan at a time) while their feeds are
\* polled, two fetches at a time
NextFeed ==
  \/ \E p \in Racers \ SeqProcs, caller \in users :
       \E q \in HonestQR, c \in OwnCards(caller) : QrExchange_Start(p, caller, q, c)
  \/ \E p \in Racers \ SeqProcs : QrExchange_Other(p)
  \/ \E p \in Racers \ SeqProcs : QrExchange_Mine(p)
  \/ \E p \in Racers \ SeqProcs : QrExchange_Existing1(p)
  \/ \E p \in Racers \ SeqProcs : QrExchange_Existing2(p)
  \/ \E p \in Racers \ SeqProcs : QrExchange_Insert1(p)
  \/ \E p \in Racers \ SeqProcs : QrExchange_Insert2(p)
  \/ \E p \in Racers \ SeqProcs : QrExchange_Log(p)
  \/ \E p \in Racers, caller \in users :
       QrLogs_Start(p, caller)
  \/ \E p \in Racers : QrLogs_Mark(p)
  \/ \E p \in Racers : Return(p)

SpecFeed == InitShown /\ [][NextFeed]_vars

\* two clients send proximity requests at the same time
NextRequest ==
  \/ \E p \in Racers, caller \in users :
       \E u \in AnyUser, c \in AnyCard : SendRequest_Start(p, caller, u, c)
  \/ \E p \in Racers : SendRequest_User(p)
  \/ \E p \in Racers : SendRequest_Check(p)
  \/ \E p \in Racers : SendRequest_Insert(p)
  \/ \E p \in Racers : Return(p)

SpecRequest == Init /\ [][NextRequest]_vars

\* the QR payload codec on its own: payloads are generated and parsed back
\* after some time, and arbitrary strings are parsed, with either parser
CodecCards == {"A1", ""}
CodecUsers == {"A", ""}
NextCodec ==
  \/ \E p \in SeqProcs, parser \in Parsers :
       \E c \in CodecCards, u \in CodecUsers, t \in TokenStrings : Codec_Generate(p, parser, c, u, t)
  \/ \E p \in SeqProcs : Codec_Parse(p)
  \/ \E p \in SeqProcs, parser \in Parsers :
       \E q \in AnyQR : Codec_ParseInput(p, parser, q)
  \/ \E p \in SeqProcs : Return(p)
  \/ Tick

SpecCodec == Init /\ [][NextCodec]_vars

\* password resets are asked for from two devices at once and the mailed
\* tokens are used while the clock advances
MailedTokens == { t.token : t \in password_reset_tokens } \cup {Ghost}
NextForgot ==
  \/ \E p \in Racers, e \in EmailInputs : ForgotPassword_Start(p, e)
  \/ \E p \in Racers : ForgotPassword_Invalidate(p)
  \/ \E p \in Racers : ForgotPassword_Insert(p)
  \/ \E p \in SeqProcs, t \in MailedTokens :
       \E w \in {"password-1"} : ResetPassword_Start(p, t, w)
  \/ \E p \in SeqProcs : ResetPassword_User(p)
  \/ \E p \in SeqProcs : ResetPassword_Update(p)
  \/ \E p \in SeqProcs : ResetPassword_Mark(p)
  \/ \E p \in Racers : Return(p)
  \/ Tick

SpecForgot == Init /\ [][NextForgot]_vars

(* =============================== claims =============================== *)
\* C1: in every reachable state, under any interleaving of single add, QR
\* redeem, URL-token mutual redeem, proximity accept and ledger delete, the
\* ledger holds at most one entry per (owner_user_id, collected_card_id) pair.
C1_LedgerPairUnique ==
  \A e1 \in exchanges : \A e2 \in exchanges :
    (e1.owner_user_id = e2.owner_user_id /\ e1.collected_card_id = e2.collected_card_id)
      => e1 = e2

\* two handlers are about to insert a pair they both found absent, and a third
\* request has already written it
C1_Witness ==
  /\ Cardinality(exchanges) = 2
  /\ \E p \in Peers : \E q \in Peers :
       /\ p # q
       /\ pc[p] \in {"add_insert", "qr_ins1", "mu_ins1", "rs_ins1"}
       /\ pc[q] \in {"add_insert", "qr_ins1", "mu_ins1", "rs_ins1"}
       /\ loc[p].op # loc[q].op
       /\ ~loc[p].ex1 /\ ~loc[q].ex1
       /\ loc[p].caller = loc[q].caller /\ loc[p].cardId = loc[q].cardId
       /\ ExistingExchange(loc[p].caller, loc[p].cardId)

\* C2: no ledger entry has an owner equal to the owner of its collected card;
\* a single add, QR redeem or mutual redeem whose caller owns the target card
\* is rejected and writes nothing, whatever the other inputs are (as a
\* self-exchange when the token and the caller's own card check out), and a
\* proximity request to oneself is rejected.
C2_NoSelfCollection ==
  /\ \A e \in exchanges :
       /\ CardById(e.collected_card_id) # {}
       /\ OwnerOf(e.collected_card_id) # e.owner_user_id
  /\ \A p \in Observed :
       (/\ pc[p] = "done"
        /\ loc[p].op \in {"add", "qr", "qr_consume", "mutual", "respond_accept"}
        /\ CardById(loc[p].cardId) # {}
        /\ OwnerOf(loc[p].cardId) = loc[p].caller)
         => /\ loc[p].status # 200
            /\ loc[p].ins = {}
            /\ (/\ loc[p].op # "add" => CardOwned(loc[p].myCardId, loc[p].caller) # {}
                /\ loc[p].op \in {"qr", "qr_consume"} => ValidToken(loc[p].token) # {})
                 => (loc[p].status = 400 /\ loc[p].err = "SelfExchange")
  /\ \A p \in Observed :
       (/\ pc[p] = "done"
        /\ loc[p].op = "request"
        /\ loc[p].otherOwner = loc[p].caller
        /\ loc[p].cardId # Missing)
         => /\ loc[p].status = 400
            /\ loc[p].err = "SelfRequest"
            /\ loc[p].ref = NoId

\* with entries already in the ledger, a mutual redeem of the caller's own
\* share URL with the caller's own card has just been turned down
C2_Witness ==
  /\ exchanges # {}
  /\ pc[1] = "done"
  /\ loc[1].op = "mutual"
  /\ loc[1].err = "SelfExchange"
  /\ OwnerOf(loc[1].cardId) = loc[1].caller
  /\ CardOwned(loc[1].myCardId, loc[1].caller) # {}

\* C3: the same redeem made twice in a row (same credential, same responder,
\* same card) never leaves two entries for one pair; the second bidirectional
\* call (QR, mutual, proximity accept) succeeds and writes nothing, and the
\* second single add answers AlreadyCollected.
C3_RepeatedRedeem ==
  \A p \in SeqProcs :
    (pc[p] = "done" /\ loc[p].repeat = "ok")
      => /\ \A e1 \in exchanges : \A e2 \in exchanges :
              (e1.owner_user_id = e2.owner_user_id
                 /\ e1.collected_card_id = e2.collected_card_id) => e1 = e2
         /\ loc[p].op = "add" => (loc[p].status = 409 /\ loc[p].err = "AlreadyCollected")
         /\ loc[p].op \in {"qr", "mutual", "respond_accept"}
              => (loc[p].status = 200 /\ loc[p].ins = {})

\* C4: a bidirectional redeem (QR, mutual, proximity accept) that wrote its
\* first direction and died before the second (which was missing), when
\* retried with the same inputs, succeeds and writes exactly the missing
\* direction, leaving one entry per pair.
C4_RetryAfterPartialCommit ==
  \A p \in SeqProcs :
    (/\ pc[p] = "done"
     /\ loc[p].repeat = "crash"
     /\ loc[p].op \in {"qr", "mutual", "respond_accept"}
     /\ prev.pc \in {"qr_ins2", "mu_ins2", "rs_ins2"}
     /\ Cardinality(prev.loc.ins) = 1
     /\ prev.loc.ins \subseteq { e.id : e \in exchanges }
     /\ \A e \in exchanges :
          (e.owner_user_id # loc[p].caller /\ e.collected_card_id = loc[p].myCardId)
            => e.id \in loc[p].ins)
      => /\ loc[p].status = 200
         /\ Cardinality(loc[p].ins) = 1
         /\ loc[p].ins \cap prev.loc.ins = {}
         /\ \A e1 \in exchanges : \A e2 \in exchanges :
              (e1.owner_user_id = e2.owner_user_id
                 /\ e1.collected_card_id = e2.collected_card_id) => e1 = e2

\* C5: of two QR redeems racing for the same ledger direction, the one whose
\* INSERT hits the unique constraint treats it as already collected: every
\* redeem with a valid token, resolvable cards and distinct users ends with
\* success and its log entry.
C5_RaceLoserSucceeds ==
  \A p \in Observed :
    (/\ pc[p] = "done"
     /\ loc[p].op = "qr"
     /\ ValidToken(loc[p].token) # {}
     /\ CardById(loc[p].cardId) # {}
     /\ CardOwned(loc[p].myCardId, loc[p].caller) # {}
     /\ OwnerOf(loc[p].cardId) # loc[p].caller)
      => /\ loc[p].status = 200
         /\ Cardinality(loc[p].logged) = 1

\* C6: a QR redeem presenting a token issued more than 30 minutes ago, or a
\* payload stamped more than 30 minutes ago, is rejected and writes neither
\* ledger nor log.
C6_ExpiredCredentialRejected ==
  \A p \in SeqProcs :
    (/\ pc[p] = "done"
     /\ loc[p].op = "qr"
     /\ loc[p].myCardId # Missing
     /\ (loc[p].tokAge > QR_TTL \/ loc[p].tsAge > QR_TTL))
      => /\ loc[p].status = 400
         /\ loc[p].ins = {}
         /\ loc[p].logged = {}

\* C7: A issues a QR code for its card A1, B redeems it with its card B1 and
\* nothing was exchanged before: the ledger is exactly (B, A1) and (A, B1),
\* both new, and exactly one new log entry exists, with qr_owner A, scanner B,
\* scanner card B1, QR card A1 and notified 0.
C7_IssueThenRedeem ==
  \A p \in SeqProcs : \A r \in qr_exchange_tokens :
    (/\ pc[p] = "done"
     /\ loc[p].op = "qr"
     /\ loc[p].status = 200
     /\ r.token = loc[p].token
     /\ r.card_id = loc[p].cardId
     /\ CardOwned(r.card_id, r.user_id) # {}
     /\ ~loc[p].ex1 /\ ~loc[p].ex2)
      => /\ { <<e.owner_user_id, e.collected_card_id>> : e \in exchanges }
              = { <<loc[p].caller, r.card_id>>, <<r.user_id, loc[p].myCardId>> }
         /\ { e.id : e \in exchanges } = loc[p].ins
         /\ Cardinality(loc[p].ins) = 2
         /\ r.user_id # loc[p].caller
         /\ CardOwned(loc[p].myCardId, loc[p].caller) # {}
         /\ Cardinality(loc[p].logged) = 1
         /\ \E g \in qr_exchange_logs :
              /\ loc[p].logged = {g.id}
              /\ g.qr_owner_user_id = r.user_id
              /\ g.scanner_user_id = loc[p].caller
              /\ g.scanner_card_id = loc[p].myCardId
              /\ g.qr_card_id = r.card_id
              /\ g.notified = 0
              /\ \A h \in qr_exchange_logs :
                   (h.qr_owner_user_id = r.user_id /\ h.scanner_user_id = loc[p].caller) => h = g

\* B has just redeemed the code that A issued through POST /exchanges/qr/generate
C7_Witness ==
  /\ pc[1] = "done"
  /\ loc[1].op = "qr"
  /\ loc[1].status = 200
  /\ loc[1].caller = "B"
  /\ loc[1].myCardId = "B1"
  /\ ~loc[1].ex1 /\ ~loc[1].ex2
  /\ \E r \in qr_exchange_tokens :
       /\ r.token = loc[1].token
       /\ r.user_id = "A" /\ r.card_id = "A1" /\ loc[1].cardId = "A1"
       /\ r.expires_at.fmt = "sql"
  /\ Cardinality(exchanges) = 2
  /\ Cardinality(qr_exchange_logs) = 1

\* C8: a feed fetch by A returns every log entry whose qr_owner is A, reports
\* as newLogs the number of them that were not yet notified and, when it
\* answers, has set the flag on each of them; a second fetch by A right after
\* returns the same entries with newLogs = 0.
C8_FeedFetch ==
  /\ [][ \A p \in SeqProcs :
           (pc[p] = "idle" /\ pc'[p] # "idle" /\ loc'[p].op = "feed")
             => /\ loc'[p].ids =
                     { g.id : g \in { x \in qr_exchange_logs :
                                        x.qr_owner_user_id = loc'[p].caller } }
                /\ loc'[p].n =
                     Cardinality({ x \in qr_exchange_logs :
                                     x.qr_owner_user_id = loc'[p].caller /\ x.notified = 0 })
                /\ loc'[p].repeat = "ok" => (loc'[p].n = 0 /\ loc'[p].ids = prev.loc.ids) ]_vars
  /\ [](\A p \in SeqProcs :
          (pc[p] = "done" /\ loc[p].op = "feed")
            => /\ loc[p].status = 200
               /\ \A g \in qr_exchange_logs :
                    g.qr_owner_user_id = loc[p].caller => (g.id \in loc[p].ids /\ g.notified = 1))

\* A's second fetch in a row: the entry reported as new by the first fetch is
\* returned again and nothing is new
C8_Witness ==
  /\ pc[1] = "done"
  /\ loc[1].op = "feed"
  /\ loc[1].repeat = "ok"
  /\ prev.loc.n = 1
  /\ loc[1].n = 0
  /\ loc[1].ids # {}
  /\ loc[1].ids = prev.loc.ids

\* C9: every QR redeem that passes validation (valid token, both cards
\* resolved, the scanner owns its card, not a self-exchange) succeeds and
\* appends exactly one log entry, also when both ledger inserts were skipped;
\* the ledger never holds more than the two entries of the pair.
C9_OneLogPerRedeem ==
  /\ [][ \A p \in SeqProcs :
           (pc[p] = "qr_log" /\ pc'[p] = "done")
             => /\ Cardinality(qr_exchange_logs') = Cardinality(qr_exchange_logs) + 1
                /\ qr_exchange_logs \subseteq qr_exchange_logs' ]_vars
  /\ [](\A p \in SeqProcs :
          (/\ pc[p] = "done"
           /\ loc[p].op = "qr"
           /\ ValidToken(loc[p].token) # {}
           /\ CardById(loc[p].cardId) # {}
           /\ CardOwned(loc[p].myCardId, loc[p].caller) # {}
           /\ OwnerOf(loc[p].cardId) # loc[p].caller)
            => /\ loc[p].status = 200
               /\ Cardinality(loc[p].logged) = 1
               /\ loc[p].logged \subseteq { g.id : g \in qr_exchange_logs }
               /\ Cardinality({ e \in exchanges :
                                  \/ (e.owner_user_id = loc[p].caller
                                        /\ e.collected_card_id = loc[p].cardId)
                                  \/ (e.owner_user_id = loc[p].otherOwner
                                        /\ e.collected_card_id = loc[p].myCardId) }) = 2)

\* the second redeem of one code by one scanner: both directions existed, no
\* ledger row was written, and the second log entry is there
C9_Witness ==
  /\ pc[1] = "done"
  /\ loc[1].op = "qr"
  /\ loc[1].repeat = "ok"
  /\ loc[1].status = 200
  /\ loc[1].ex1 /\ loc[1].ex2
  /\ loc[1].ins = {}
  /\ Cardinality(loc[1].logged) = 1
  /\ Cardinality(qr_exchange_logs) = 2
  /\ Cardinality(exchanges) = 2

\* C10: A redeems a QR code that A issued, with a card A owns, by either QR
\* route: the answer is the self-exchange error, and neither a ledger entry
\* nor a log entry is written.
C10_OwnCodeRejected ==
  /\ [][ \A p \in SeqProcs :
           (/\ pc[p] \notin {"idle", "done"}
            /\ loc[p].op \in {"qr", "qr_consume"}
            /\ \E r \in qr_exchange_tokens :
                 /\ r.token = loc[p].token
                 /\ r.user_id = loc[p].caller
                 /\ r.card_id = loc[p].cardId
            /\ CardOwned(loc[p].myCardId, loc[p].caller) # {})
             => /\ exchanges' = exchanges
                /\ qr_exchange_logs' = qr_exchange_logs ]_vars
  /\ [](\A p \in SeqProcs :
          (/\ pc[p] = "done"
           /\ loc[p].op \in {"qr", "qr_consume"}
           /\ \E r \in qr_exchange_tokens :
                /\ r.token = loc[p].token
                /\ r.user_id = loc[p].caller
                /\ r.card_id = loc[p].cardId
           /\ CardOwned(loc[p].myCardId, loc[p].caller) # {})
            => /\ loc[p].status = 400
               /\ loc[p].err = "SelfExchange"
               /\ loc[p].ins = {}
               /\ loc[p].logged = {})

\* A has scanned its own code with its own card on the token-consuming route
C10_Witness ==
  /\ pc[1] = "done"
  /\ loc[1].op = "qr_consume"
  /\ loc[1].caller = "A"
  /\ loc[1].myCardId = "A1"
  /\ loc[1].cardId = "A1"
  /\ \E r \in qr_exchange_tokens : r.token = loc[1].token /\ r.user_id = "A"
  /\ loc[1].err = "SelfExchange"
  /\ exchanges = {}

\* C11: on the token-consuming QR route one token serves at most one
\* successful redeem: when a scanner's redeem of a token has succeeded, every
\* ledger entry that collects the token's card was written by that redeem,
\* whatever other scans of the same token ran at the same time.
C11_TokenSingleUse ==
  \A p \in Observed :
    (/\ pc[p] = "done"
     /\ loc[p].op = "qr_consume"
     /\ loc[p].status = 200)
      => \A e \in exchanges :
           e.collected_card_id = loc[p].cardId => e.id \in loc[p].ins

\* C12: on the instant QR route no step of a redeem changes the token store,
\* and a stored token is valid as long as the clock is before its expiry;
\* every scanner other than the issuer who presents the token before its
\* expiry with a card of its own succeeds, whoever redeemed the token before,
\* and then holds the issuer's card while the issuer holds the scanner's card.
C12_TokenNotConsumed ==
  /\ [][ \A p \in SeqProcs :
           (pc[p] # pc'[p] /\ (loc[p].op = "qr" \/ loc'[p].op = "qr"))
             => qr_exchange_tokens' = qr_exchange_tokens ]_vars
  /\ [](\A r \in qr_exchange_tokens : now < r.expires_at.t => r \in ValidToken(r.token))
  /\ [](\A p \in SeqProcs :
          (/\ pc[p] = "done"
           /\ loc[p].op = "qr"
           /\ loc[p].tokAge >= 0
           /\ loc[p].tokAge < QR_TTL
           /\ CardOwned(loc[p].myCardId, loc[p].caller) # {}
           /\ \E r \in qr_exchange_tokens :
                r.token = loc[p].token /\ r.user_id # loc[p].caller)
            => /\ loc[p].status = 200
               /\ \E r \in qr_exchange_tokens :
                    /\ r.token = loc[p].token
                    /\ ExistingExchange(loc[p].caller, r.card_id)
                    /\ ExistingExchange(r.user_id, loc[p].myCardId))

\* C has just redeemed, with C1, the token that B redeemed before with B1: A
\* holds both scanners' cards, both scanners hold A1 and the token is still
\* stored
C12_Witness ==
  /\ pc[1] = "done"
  /\ loc[1].op = "qr"
  /\ loc[1].status = 200
  /\ loc[1].caller = "C"
  /\ loc[1].myCardId = "C1"
  /\ Cardinality(loc[1].ins) = 2
  /\ ExistingExchange("B", "A1") /\ ExistingExchange("A", "B1")
  /\ ExistingExchange("C", "A1") /\ ExistingExchange("A", "C1")
  /\ \E r \in qr_exchange_tokens : r.token = loc[1].token /\ r.user_id = "A"

\* C13: an issue call by U for its card C, on either issue route, stores the
\* returned token under (U, C) with an expiry 30 minutes ahead; a redeem that
\* presents a stored token as it was returned (the raw token, or the payload
\* naming C) before that expiry passes the token check and resolves to card C
\* and to its issuer U.
C13_IssueValidateRoundTrip ==
  /\ \A p \in SeqProcs :
       (/\ pc[p] = "done"
        /\ loc[p].op \in {"generate", "cards_generate"}
        /\ loc[p].status = 200)
         => /\ CardOwned(loc[p].cardId, loc[p].caller) # {}
            /\ \E r \in qr_exchange_tokens :
                 /\ r.token = loc[p].token
                 /\ r.user_id = loc[p].caller
                 /\ r.card_id = loc[p].cardId
                 /\ r.expires_at.t = r.created_at.t + QR_TTL
                 /\ now < r.expires_at.t => ValidToken(loc[p].token) = {r}
  /\ \A p \in SeqProcs : \A r \in qr_exchange_tokens :
       (/\ loc[p].op = "qr"
        /\ loc[p].token = r.token
        /\ loc[p].req[3] \in {Missing, r.card_id}
        /\ loc[p].tsAge \in {0 - 1, loc[p].tokAge}
        /\ loc[p].tokAge < QR_TTL
        /\ loc[p].myCardId # Missing)
         => /\ loc[p].err \notin {"QrDataRequired", "InvalidOrExpiredQR",
                                  "InvalidOrExpiredToken", "CardNotFound"}
            /\ loc[p].cardId = r.card_id
            /\ pc[p] # "qr_other" => loc[p].otherOwner = r.user_id

\* B has redeemed, 30 minutes into the run, a raw token that A issued for A1
\* through POST /cards/:id/generate-qr after an earlier token for the same card
C13_Witness ==
  /\ pc[1] = "done"
  /\ loc[1].op = "qr"
  /\ loc[1].status = 200
  /\ loc[1].caller = "B"
  /\ loc[1].req[3] = Missing
  /\ loc[1].cardId = "A1"
  /\ loc[1].otherOwner = "A"
  /\ now > 0
  /\ \E r \in qr_exchange_tokens :
       r.token = loc[1].token /\ r.expires_at.fmt = "iso" /\ r.created_at.t > 0

\* C14: a redeem whose token is unknown, deleted or expired (the clock at or
\* past its expiry) gets the 400 'invalid or expired' answer and writes
\* nothing, and a redeem whose token is stored and not yet expired is not
\* turned down at the token check.
C14_TokenValidity ==
  \A p \in SeqProcs :
    (pc[p] = "done" /\ loc[p].op \in {"qr", "qr_consume"})
      => /\ (loc[p].tokAge < 0 \/ loc[p].tokAge >= QR_TTL)
              => /\ loc[p].status = 400
                 /\ loc[p].err \in {"QrDataRequired", "InvalidOrExpiredQR", "InvalidOrExpiredToken"}
                 /\ loc[p].ins = {}
                 /\ loc[p].logged = {}
         /\ (loc[p].tokAge >= 0 /\ loc[p].tokAge < QR_TTL)
              => loc[p].err # "InvalidOrExpiredToken"

\* C15: the token store holds at most one token per (issuing user, card)
\* pair, whatever issue calls were made.
C15_OneTokenPerPair ==
  \A r1 \in qr_exchange_tokens : \A r2 \in qr_exchange_tokens :
    (r1.user_id = r2.user_id /\ r1.card_id = r2.card_id) => r1 = r2

\* C16: an issue call for a card the caller does not own is rejected and
\* stores nothing; every stored QR token is filed under the owner of its
\* card, and every share URL handed out names a card of the caller it was
\* handed to; a mutual redeem of a share URL token naming card C succeeds only
\* if C's owner had a share URL issued for C.
C16_OnlyOwnerIssues ==
  /\ \A p \in SeqProcs :
       (/\ pc[p] = "done"
        /\ loc[p].op \in {"generate", "cards_generate", "url_generate"}
        /\ CardOwned(loc[p].cardId, loc[p].caller) = {})
         => /\ loc[p].status \in {400, 404}
            /\ loc[p].token = NoToken
  /\ \A r \in qr_exchange_tokens : CardOwned(r.card_id, r.user_id) # {}
  /\ \A u \in seq.urls : CardOwned(u.cardId, u.userId) # {}
  /\ \A p \in SeqProcs :
       (/\ loc[p].op = "mutual"
        /\ pc[p] = "done"
        /\ loc[p].status = 200)
         => \E u \in seq.urls : u.cardId = loc[p].cardId

\* C17: a mutual redeem that finds exactly one of the two directions in the
\* ledger succeeds, writes exactly the missing direction and leaves both
\* directions present.
C17_MutualSkipsExisting ==
  \A p \in SeqProcs :
    (/\ pc[p] = "done"
     /\ loc[p].op = "mutual"
     /\ loc[p].otherOwner \in users
     /\ loc[p].otherOwner # loc[p].caller
     /\ CardOwned(loc[p].myCardId, loc[p].caller) # {}
     /\ loc[p].ex1 # loc[p].ex2)
      => /\ loc[p].status = 200
         /\ Cardinality(loc[p].ins) = 1
         /\ ExistingExchange(loc[p].caller, loc[p].cardId)
         /\ ExistingExchange(loc[p].otherOwner, loc[p].myCardId)

\* C18: an accept of a pending, unexpired request by its recipient with a
\* card of its own succeeds, whatever the ledger already holds: afterwards
\* the recipient holds the requested card, the requester holds the recipient's
\* card and the request is accepted; and a request is marked accepted by a
\* handler only when both directions are in the ledger.
C18_AcceptWritesMissing ==
  /\ [](\A p \in SeqProcs :
          (/\ pc[p] = "done"
           /\ loc[p].op = "respond_accept"
           /\ loc[p].cardId # "-"
           /\ CardOwned(loc[p].myCardId, loc[p].caller) # {})
            => /\ loc[p].status = 200
               /\ ExistingExchange(loc[p].caller, loc[p].cardId)
               /\ ExistingExchange(loc[p].otherOwner, loc[p].myCardId)
               /\ \E r \in exchange_requests : r.id = loc[p].ref /\ r.status = "accepted")
  /\ [][ \A r \in exchange_requests : \A r2 \in exchange_requests' :
           (r2.id = r.id /\ r.status # "accepted" /\ r2.status = "accepted")
             => /\ \E c \in cards : c.user_id = r.to_user_id
                                      /\ ExistingExchange(r.from_user_id, c.id)
                /\ ExistingExchange(r.to_user_id, r.card_id) ]_vars

\* C19: a request's status is one of pending, accepted, rejected and expired,
\* and no step changes a status that is accepted, rejected or expired.
C19_StatusMonotonic ==
  /\ [](\A r \in exchange_requests :
          r.status \in {"pending", "accepted", "rejected", "expired"})
  /\ [][ \A r \in exchange_requests : \A r2 \in exchange_requests' :
           (r2.id = r.id /\ r.status # "pending") => r2.status = r.status ]_vars

\* C20: a step of a reject handler changes nothing but the status of the
\* request it names, from pending to rejected; and once no respond call is in
\* flight, a rejected request has left no ledger entry between its requester
\* and its recipient.
C20_RejectFrame ==
  /\ [][ \A p \in Racers :
           (pc[p] # pc'[p] /\ (loc[p].op = "respond_reject" \/ loc'[p].op = "respond_reject"))
             => /\ exchanges' = exchanges
                /\ qr_exchange_tokens' = qr_exchange_tokens
                /\ qr_exchange_logs' = qr_exchange_logs
                /\ users' = users /\ cards' = cards
                /\ \A r \in exchange_requests :
                     \/ r \in exchange_requests'
                     \/ /\ r.id = loc[p].ref
                        /\ r.status = "pending"
                        /\ [r EXCEPT !.status = "rejected"] \in exchange_requests'
                /\ Cardinality(exchange_requests') = Cardinality(exchange_requests) ]_vars
  /\ [](\A r \in exchange_requests :
          (/\ r.status = "rejected"
           /\ \A p \in Racers : loc[p].op \notin {"respond_accept", "respond_reject"}
                                  \/ pc[p] = "done")
            => /\ ~ExistingExchange(r.to_user_id, r.card_id)
               /\ \A c \in cards : c.user_id = r.to_user_id
                                     => ~ExistingExchange(r.from_user_id, c.id))

C22_SingleAdd ==
  /\ [](\A p \in SeqProcs :
          (pc[p] = "done" /\ loc[p].op = "add")
            => /\ (/\ loc[p].cardId # Missing
                   /\ \E e \in exchanges :
                        /\ e.owner_user_id = loc[p].caller
                        /\ e.collected_card_id = loc[p].cardId
                        /\ e.id \notin loc[p].ins)
                    => (loc[p].status = 409 /\ loc[p].err = "AlreadyCollected" /\ loc[p].ins = {})
               /\ loc[p].status = 200
                    => /\ CardById(loc[p].cardId) # {}
                       /\ OwnerOf(loc[p].cardId) # loc[p].caller
                       /\ Cardinality(loc[p].ins) = 1
                       /\ \A e \in exchanges :
                            (e.owner_user_id = loc[p].caller
                               /\ e.collected_card_id = loc[p].cardId) <=> e.id \in loc[p].ins
               /\ loc[p].status # 200 => loc[p].ins = {})
  /\ [][ \A p \in SeqProcs :
           (pc[p] # pc'[p] /\ (loc[p].op = "add" \/ loc'[p].op = "add"))
             => IF pc'[p] = "done" /\ loc'[p].status = 200
                THEN /\ exchanges \subseteq exchanges'
                     /\ Cardinality(exchanges') = Cardinality(exchanges) + 1
                     /\ { e.id : e \in exchanges' \ exchanges } = loc'[p].ins
                ELSE exchanges' = exchanges ]_vars

\* B, who had collected A1 before, has asked to add A1 again
C22_Witness ==
  /\ pc[1] = "done"
  /\ loc[1].op = "add"
  /\ loc[1].caller = "B"
  /\ loc[1].cardId = "A1"
  /\ loc[1].status = 409
  /\ loc[1].err = "AlreadyCollected"
  /\ ExistingExchange("B", "A1")

\* C23: a step that changes or removes a ledger entry is the UPDATE or DELETE
\* of a handler whose caller is the entry's owner and which names the entry;
\* a changed entry keeps its id, owner and collected card; an update or
\* delete naming an entry that another user owns answers 403.
C23_OwnerOnlyEdits ==
  /\ [][ \A e \in exchanges :
           e \notin exchanges'
             => /\ \E p \in Racers :
                     /\ pc[p] \in {"put_run", "del_run"}
                     /\ pc'[p] # pc[p]
                     /\ loc[p].ref = e.id
                     /\ loc[p].caller = e.owner_user_id
                     /\ pc[p] = "put_run"
                          => \E e2 \in exchanges' :
                               /\ e2.id = e.id
                               /\ e2.owner_user_id = e.owner_user_id
                               /\ e2.collected_card_id = e.collected_card_id
                /\ \A x \in exchanges : x.id # e.id => x \in exchanges' ]_vars
  /\ [](\A p \in Observed :
          (/\ pc[p] = "done"
           /\ loc[p].op \in {"update", "delete"}
           /\ \E e \in exchanges : e.id = loc[p].ref /\ e.owner_user_id # loc[p].caller)
            => (loc[p].status = 403 /\ loc[p].err = "NotAuthorized"))

\* A has just been refused an update of B's entry, which carries the memo and
\* the place that B wrote
C23_Witness ==
  /\ pc[1] = "done"
  /\ loc[1].op = "update"
  /\ loc[1].caller = "A"
  /\ loc[1].status = 403
  /\ \E e \in exchanges :
       /\ e.id = loc[1].ref
       /\ e.owner_user_id = "B"
       /\ e.memo = "memo"
       /\ e.location_name = "place"

\* C24: a step that removes a log entry is the DELETE of a handler whose
\* caller is the entry's qr_owner or its scanner; a step that changes a log
\* entry changes its notified flag only; a delete naming an entry of two other
\* users answers 403, and only such a delete is answered 403.
C24_LogDelete ==
  /\ [][ \A g \in qr_exchange_logs :
           g \notin qr_exchange_logs'
             => \/ /\ \A g2 \in qr_exchange_logs' : g2.id # g.id
                   /\ \E p \in SeqProcs :
                        /\ pc[p] = "ld_run"
                        /\ pc'[p] # pc[p]
                        /\ loc[p].op = "log_delete"
                        /\ loc[p].ref = g.id
                        /\ loc[p].caller \in {g.qr_owner_user_id, g.scanner_user_id}
                   /\ qr_exchange_logs' = qr_exchange_logs \ {g}
                \/ \E g2 \in qr_exchange_logs' :
                     /\ g2.notified # g.notified
                     /\ g2 = [g EXCEPT !.notified = g2.notified] ]_vars
  /\ [](\A p \in SeqProcs :
          (pc[p] = "done" /\ loc[p].op = "log_delete")
            => /\ (\E g \in qr_exchange_logs :
                     /\ g.id = loc[p].ref
                     /\ loc[p].caller \notin {g.qr_owner_user_id, g.scanner_user_id})
                    => (loc[p].status = 403 /\ loc[p].err = "NotAuthorized")
               /\ loc[p].status = 403
                    => \E g \in qr_exchange_logs :
                         /\ g.id = loc[p].ref
                         /\ loc[p].caller \notin {g.qr_owner_user_id, g.scanner_user_id})

\* C has just been refused the deletion of the entry of B's scan of A's code,
\* which A has already seen in the feed
C24_Witness ==
  /\ pc[1] = "done"
  /\ loc[1].op = "log_delete"
  /\ loc[1].caller = "C"
  /\ loc[1].status = 403
  /\ \E g \in qr_exchange_logs :
       /\ g.id = loc[1].ref
       /\ g.qr_owner_user_id = "A"
       /\ g.scanner_user_id = "B"
       /\ g.notified = 1

\* C25: a redeem whose credential cannot be decoded or lacks its card id, its
\* token, its timestamp or its expiry is answered with a 4xx status and writes
\* neither ledger nor log, on both QR routes and on the URL-token route.
C25_MalformedCredential ==
  \A p \in SeqProcs :
    (/\ pc[p] = "done"
     /\ \/ /\ loc[p].op = "mutual"
           /\ (loc[p].cardId = Missing \/ loc[p].n = NoTime \/ loc[p].tsAge = NoTime)
        \/ /\ loc[p].op \in {"qr", "qr_consume"}
           /\ (loc[p].token = NoToken \/ (loc[p].req[3] # Missing /\ loc[p].tsAge = NoTime)))
      => /\ loc[p].status \in 400..499
         /\ loc[p].ins = {}
         /\ loc[p].logged = {}

(* C26: a QR redeem, URL-token redeem or proximity accept whose responder    *)
(* card does not exist or is not the responder's, or whose target card does  *)
(* not exist, ends without success and without any change to the ledger,     *)
(* the log or the requests; and every ledger row a redeem writes for the     *)
(* issuer or requester collects a card the responder owns at that step.      *)
BidirectionalOps == {"qr", "qr_consume", "mutual", "respond_accept"}
BadCards(l) ==
  \/ CardOwned(l.myCardId, l.caller) = {}
  \/ CardById(l.cardId) = {}
C26_CardChecks ==
  [][ \A p \in SeqProcs :
        /\ (loc'[p].op \in BidirectionalOps /\ BadCards(loc'[p]))
             => /\ exchanges' = exchanges
                /\ qr_exchange_logs' = qr_exchange_logs
                /\ exchange_requests' = exchange_requests
                /\ pc'[p] = "done" => (loc'[p].status # 200 /\ loc'[p].ins = {} /\ loc'[p].logged = {})
        /\ (loc'[p].op \in BidirectionalOps)
             => \A e \in exchanges' \ exchanges :
                  e.owner_user_id # loc'[p].caller
                    => /\ e.collected_card_id = loc'[p].myCardId
                       /\ CardOwned(e.collected_card_id, loc'[p].caller) # {} ]_vars
\* an accept that offers somebody else's card has been answered 404 and the
\* request is still pending
C26_Witness ==
  \E p \in SeqProcs :
    /\ pc[p] = "done"
    /\ loc[p].op = "respond_accept"
    /\ CardById(loc[p].myCardId) # {}
    /\ CardOwned(loc[p].myCardId, loc[p].caller) = {}
    /\ loc[p].status = 404
    /\ \E r \in exchange_requests : r.id = loc[p].ref /\ r.status = "pending"

(* C27: in every reachable state each ledger entry, QR token, proximity      *)
(* request and log entry references users and cards that exist, and each     *)
(* card a user that exists; a card disappears only through a delete by its   *)
(* owner or with its owner's account, and no row that references it is left  *)
(* or is written afterwards by a request that had already looked it up.      *)
ReferentialIntegrity ==
  /\ \A c \in cards : c.user_id \in users
  /\ \A e \in exchanges : e.owner_user_id \in users /\ e.collected_card_id \in CardIds
  /\ \A r \in qr_exchange_tokens : r.user_id \in users /\ r.card_id \in CardIds
  /\ \A r \in exchange_requests :
       r.from_user_id \in users /\ r.to_user_id \in users /\ r.card_id \in CardIds
  /\ \A g \in qr_exchange_logs :
       /\ g.qr_owner_user_id \in users /\ g.scanner_user_id \in users
       /\ g.scanner_card_id \in CardIds /\ g.qr_card_id \in CardIds
C27_ReferentialIntegrity ==
  /\ ReferentialIntegrity
  /\ [][ /\ ReferentialIntegrity'
         /\ \A c \in cards \ cards' :
              \/ c.user_id \notin users'
              \/ \E p \in Racers :
                   pc[p] = "cd_run" /\ loc[p].cardId = c.id /\ loc[p].caller = c.user_id ]_vars
\* a redeem that had looked up both cards has lost one of them to a delete and
\* its INSERT has been refused
C27_Witness ==
  \E p \in Observed :
    /\ pc[p] = "done"
    /\ loc[p].op = "qr"
    /\ loc[p].err = "ForeignKey"
    /\ loc[p].cardId \notin CardIds \/ loc[p].myCardId \notin CardIds
    /\ users = Accounts

(* C28: for a stored token that has not reached its expiry, a redeem that    *)
(* presents the raw token string and a redeem that presents the payload      *)
(* issued with it (the token's card, the issuer, the token, the issue time)  *)
(* pass the credential checks alike and continue with the same token, the    *)
(* same target card and the same locals, so that the rest of the handler     *)
(* writes the same ledger and log rows and gives the same answer.            *)
AsIssued(l, r) ==
  \/ l.req[3] = Missing
  \/ l.req[3] = r.card_id /\ l.tsAge = now - r.created_at.t
C28_OpaqueAndPayloadAgree ==
  [][ \A p \in SeqProcs :
        (pc[p] = "idle" /\ loc'[p].op = "qr" /\ loc'[p].myCardId # Missing)
          => \A r \in qr_exchange_tokens :
               (r.token = loc'[p].req[2] /\ now < r.expires_at.t /\ AsIssued(loc'[p], r))
                 => /\ pc'[p] = "qr_other"
                    /\ [loc'[p] EXCEPT !.req = <<>>, !.tsAge = 0, !.tokAge = 0, !.repeat = "no"]
                         = [IdleLoc EXCEPT !.op = "qr", !.caller = loc'[p].caller,
                                           !.myCardId = loc'[p].myCardId,
                                           !.token = r.token, !.cardId = r.card_id,
                                           !.tsAge = 0, !.tokAge = 0] ]_vars
\* a redeem that presented the payload of a stored, unexpired token has
\* written both ledger rows and the log entry
C28_Witness ==
  \E p \in SeqProcs : \E r \in qr_exchange_tokens :
    /\ pc[p] = "done"
    /\ loc[p].op = "qr"
    /\ loc[p].token = r.token
    /\ loc[p].req[3] = r.card_id
    /\ loc[p].tsAge = now - r.created_at.t
    /\ now < r.expires_at.t
    /\ loc[p].status = 200
    /\ Cardinality(loc[p].ins) = 2
    /\ loc[p].logged # {}

(* C29: a password reset token serves at most one successful reset: a reset  *)
(* that has succeeded leaves its token used, so that every later reset with  *)
(* it is refused, and of the resets that present the same token at the same  *)
(* time at most one gets as far as changing the password.                    *)
PasswordChanged(p) ==
  /\ loc[p].op = "reset"
  /\ pc[p] = "rp_mark" \/ (pc[p] = "done" /\ loc[p].status = 200)
C29_ResetTokenSingleUse ==
  /\ \A p \in Racers :
       (pc[p] = "done" /\ loc[p].op = "reset" /\ loc[p].status = 200)
         => \A t \in password_reset_tokens : t.token = loc[p].token => t.used = 1
  /\ \A p, q \in Racers :
       (p # q /\ PasswordChanged(p) /\ PasswordChanged(q)) => loc[p].token # loc[q].token

(* C30: a registration that has stored the user row answers success (201)   *)
(* whether or not the verification mail was delivered, with emailSent        *)
(* telling which, and no step of a registration removes or alters a user     *)
(* row that is already stored.                                               *)
C30_RegisterSurvivesMailFailure ==
  [][ /\ users \subseteq users'
      /\ \A u \in users : user_rows'[u] = user_rows[u]
      /\ \A p \in Observed :
           (pc[p] = "rg_mail" /\ pc'[p] # "rg_mail")
             => /\ pc'[p] = "done"
                /\ loc'[p].status = 201
                /\ loc'[p].otherOwner \in users'
                /\ user_rows'[loc'[p].otherOwner].email = loc'[p].email
                /\ user_rows'[loc'[p].otherOwner].hashed_password = <<"hash", loc'[p].password>> ]_vars
\* the mail was not delivered, the registration has answered 201 with
\* emailSent = false and the new user row is stored
C30_Witness ==
  \E p \in Observed :
    /\ pc[p] = "done"
    /\ loc[p].op = "register"
    /\ loc[p].status = 201
    /\ ~loc[p].emailSent
    /\ loc[p].otherOwner \in users
    /\ user_rows[loc[p].otherOwner].email = loc[p].email
    /\ user_rows[loc[p].otherOwner].email_verified = 0

(* C31: the notified flag of a log entry is unset when the entry is created, *)
(* never returns to unset, and is set only by a step of a feed fetch whose    *)
(* caller is the entry's qr_owner; a step of a feed fetch by X leaves the     *)
(* flag of every entry of another qr_owner as it was.                         *)
C31_NotifiedMonotonic ==
  [][ /\ \A h \in qr_exchange_logs' :
           (h.id \notin { g.id : g \in qr_exchange_logs }) => h.notified = 0
      /\ \A g \in qr_exchange_logs, h \in qr_exchange_logs' :
           (h.id = g.id)
             => /\ h.qr_owner_user_id = g.qr_owner_user_id
                /\ g.notified = 1 => h.notified = 1
                /\ (g.notified # h.notified)
                     => \E p \in Racers :
                          /\ pc[p] = "feed_mark"
                          /\ loc[p].op = "feed"
                          /\ loc[p].caller = g.qr_owner_user_id
                          /\ g.id \in loc[p].todo
                          /\ <<pc'[p], loc'[p]>> # <<pc[p], loc[p]>>
                /\ \A p \in Racers :
                     (loc[p].op = "feed" /\ <<pc'[p], loc'[p]>> # <<pc[p], loc[p]>>
                        /\ loc[p].caller # g.qr_owner_user_id)
                       => h.notified = g.notified ]_vars
\* A has fetched its feed and the scan of its code is marked, while the scan
\* of B's code by another user is still unset
C31_Witness ==
  /\ pc[1] = "done"
  /\ loc[1].op = "feed"
  /\ loc[1].n = 1
  /\ \E g \in qr_exchange_logs :
       g.qr_owner_user_id = loc[1].caller /\ g.id \in loc[1].ids /\ g.notified = 1
  /\ \E g \in qr_exchange_logs :
       g.qr_owner_user_id # loc[1].caller /\ g.notified = 0

(* C33: a log entry is counted in newLogs by at most one feed fetch: the      *)
(* entries a fetch has read as unnotified (those it counts in newLogs and     *)
(* still has to mark) are never among those another running fetch has read    *)
(* as unnotified.                                                             *)
C33_ReportedNewOnce ==
  \A p \in Racers, q \in Racers :
    (/\ p # q
     /\ pc[p] = "feed_mark" /\ loc[p].op = "feed"
     /\ pc[q] = "feed_mark" /\ loc[q].op = "feed")
      => loc[p].todo \cap loc[q].todo = {}

(* C32: a successful instant QR redeem that presented a structured payload    *)
(* has collected the card its token was issued for: the target card and the   *)
(* issuer it recorded, the log entry it appended and the ledger rows it wrote *)
(* name the card_id and the user_id stored with the presented token,          *)
(* whatever cardId the payload carried.                                       *)
C32_RedeemCollectsTokenCard ==
  \A p \in SeqProcs :
    (/\ pc[p] = "done"
     /\ loc[p].op = "qr"
     /\ loc[p].status = 200
     /\ loc[p].req[3] # Missing)
      => \A r \in qr_exchange_tokens :
           (r.token = loc[p].token)
             => /\ loc[p].cardId = r.card_id
                /\ loc[p].otherOwner = r.user_id
                /\ \A g \in qr_exchange_logs :
                     (g.id \in loc[p].logged)
                       => (g.qr_card_id = r.card_id /\ g.qr_owner_user_id = r.user_id)
                /\ \A e \in exchanges :
                     (e.id \in loc[p].ins /\ e.owner_user_id = loc[p].caller)
                       => e.collected_card_id = r.card_id

(* C34: at most one pending, unexpired request exists per (from_user,         *)
(* to_user) pair, also under concurrent sends: a send never stands before its *)
(* INSERT (which has no condition) while a pending, unexpired request of its  *)
(* pair is stored; every stored request has from_user # to_user and a card    *)
(* owned by from_user.                                                        *)
C34_OnePendingPerPair ==
  /\ \A r \in exchange_requests :
       /\ r.from_user_id # r.to_user_id
       /\ CardOwned(r.card_id, r.from_user_id) # {}
       /\ Cardinality(PendingBetween(r.from_user_id, r.to_user_id)) <= 1
  /\ \A p \in Racers :
       (pc[p] = "rq_insert") => PendingBetween(loc[p].caller, loc[p].otherOwner) = {}

(* C35: a respond call (accept or reject) gets past its lookup only when the  *)
(* request it names is addressed to the caller, is pending and has not yet    *)
(* reached its expiry; otherwise (another user, a request already accepted,   *)
(* rejected or expired, or past expiry with the sweep not yet run) it answers *)
(* 404 and leaves every table as it was.  A request becomes accepted or       *)
(* rejected only by a respond call that got past its lookup.                  *)
C35_RespondGuard ==
  [][ /\ \A p \in Racers :
           (pc[p] = "idle" /\ pc'[p] \in {"rs_reject", "rs_mine"})
             => \E r \in exchange_requests :
                  /\ r.id = loc'[p].ref
                  /\ r.to_user_id = loc'[p].caller
                  /\ r.status = "pending"
                  /\ now < r.expires_at.t
      /\ \A p \in Observed :
           (/\ pc[p] = "idle" /\ pc'[p] # "idle"
            /\ loc'[p].op \in {"respond_accept", "respond_reject"}
            /\ ~ \E r \in exchange_requests :
                   /\ r.id = loc'[p].ref
                   /\ r.to_user_id = loc'[p].caller
                   /\ r.status = "pending"
                   /\ now < r.expires_at.t)
             => /\ pc'[p] = "done"
                /\ loc'[p].status = 404
                /\ exchange_requests' = exchange_requests
                /\ exchanges' = exchanges
      /\ \A r \in exchange_requests, s \in exchange_requests' :
           (s.id = r.id /\ s.status # r.status /\ s.status \in {"accepted", "rejected"})
             => \E p \in Racers :
                  /\ pc[p] \in {"rs_reject", "rs_accept"}
                  /\ loc[p].ref = r.id
                  /\ loc[p].caller = r.to_user_id ]_vars
\* B answers A's request after its expiry, before any sweep has marked it:
\* the request is still stored as pending and the call is answered 404
C35_Witness ==
  \E p \in Observed : \E r \in exchange_requests :
    /\ pc[p] = "done"
    /\ loc[p].op = "respond_accept"
    /\ loc[p].status = 404
    /\ r.id = loc[p].ref
    /\ r.to_user_id = loc[p].caller
    /\ r.status = "pending"
    /\ now >= r.expires_at.t
    /\ exchanges = {}

(* C36: at the moment the instant QR redeem appends a log entry (qr_owner A,  *)
(* scanner B, scanner card Y, QR card X), the ledger holds both (owner B,     *)
(* collected X) and (owner A, collected Y), also when a ledger delete runs    *)
(* between the steps of the redeem.                                           *)
C36_LogAfterBothRows ==
  [][ \A g \in qr_exchange_logs' :
        (g.id \notin { h.id : h \in qr_exchange_logs })
          => /\ \E e \in exchanges' :
                  e.owner_user_id = g.scanner_user_id /\ e.collected_card_id = g.qr_card_id
             /\ \E e \in exchanges' :
                  e.owner_user_id = g.qr_owner_user_id /\ e.collected_card_id = g.scanner_card_id ]_vars

(* C37: a payload made by generateCardExchangeQRData and parsed at most 30    *)
(* minutes later comes back with the cardId, userId and token it was made     *)
(* from; and a parse returns null when the input is not JSON, its type is not *)
(* 'card_exchange', its cardId, userId, token or timestamp is missing, or its *)
(* age exceeds 30 minutes.                                                    *)
C37_CodecRoundTrip ==
  [][ \A p \in SeqProcs :
        /\ (/\ pc[p] = "codec_parse" /\ pc'[p] = "done"
            /\ now - loc[p].tsAge <= QR_TTL)
             => /\ loc'[p].err = "parsed"
                /\ loc'[p].cardId = loc[p].req[2]
                /\ loc'[p].otherOwner = loc[p].req[3]
                /\ loc'[p].token = loc[p].req[4]
        /\ (/\ pc[p] # "done" /\ pc'[p] = "done"
            /\ loc'[p].op \in {"codec_utils", "codec_route", "parse_utils", "parse_route"}
            /\ \/ loc'[p].req[1].form # "json"
               \/ loc'[p].req[1].type # "card_exchange"
               \/ loc'[p].req[1].cardId = Missing
               \/ loc'[p].req[1].userId = Missing
               \/ loc'[p].req[1].token = NoToken
               \/ loc'[p].req[1].timestamp = NoTime
               \/ now - loc'[p].req[1].timestamp > QR_TTL)
             => loc'[p].err = "null" ]_vars

(* C38: an update of a ledger entry (PUT /exchanges/:id) changes only the     *)
(* fields its request carries: a memo or location_name the request omits      *)
(* keeps its previous value, a field it carries takes the given value, and    *)
(* every other ledger entry stays as it was.                                  *)
C38_PartialUpdate ==
  [][ \A p \in Racers :
        (pc[p] = "put_run" /\ <<pc'[p], loc'[p]>> # <<pc[p], loc[p]>>)
          => \A e \in exchanges :
               /\ (e.id # loc[p].ref) => e \in exchanges'
               /\ (e.id = loc[p].ref)
                    => \E f \in exchanges' :
                         /\ f.id = e.id
                         /\ f.owner_user_id = e.owner_user_id
                         /\ f.collected_card_id = e.collected_card_id
                         /\ f.memo = IF loc[p].req[6] = Missing THEN e.memo ELSE loc[p].req[6]
                         /\ f.location_name =
                              IF loc[p].req[7] = Missing THEN e.location_name ELSE loc[p].req[7] ]_vars

(* C39: whatever forgot-password calls have run or are running for a         *)
(* verified user, at most one unused password reset token is stored for that  *)
(* user, so that only the token of the latest call can still reset the        *)
(* password.                                                                  *)
C39_OneUnusedResetToken ==
  \A u \in users :
    Cardinality({ t \in password_reset_tokens : t.user_id = u /\ t.used = 0 }) <= 1
====
